---- MODULE Spec2Model ----
(***************************************************************************)
(* Kirkidoo/Python_audit: the audit session of app.py with the write-back  *)
(* dispatcher batch_process_mismatches of shopify_service.py.              *)
(*                                                                         *)
(* The working discrepancy table (st.session_state['mismatch_df']) is a    *)
(* function from DataFrame index to row.  A fix action (process_fixes)     *)
(* runs the dispatcher over the submitted rows: one step per price group,  *)
(* one step per attribute chunk (each step is one blocking call of         *)
(* execute_graphql_query with the remote's answer chosen from a bounded    *)
(* set), and a last step that cleans the error map, marks the manual rows  *)
(* and updates the working table.                                          *)
(*                                                                         *)
(* Strings that the code concatenates, joins, strips or searches are       *)
(* sequences of tokens: a remote message is one token, SEP is " | " and    *)
(* COMMA is ", ".                                                          *)
(***************************************************************************)
EXTENDS Integers, Sequences, FiniteSets, TLC

\* ------------------------------------------------------------ bounds
MaxRows == 3      \* rows of an audit's discrepancy table
MaxFixes == 2     \* fix actions of one session
MaxFaults == 2    \* remote failures (validation errors, transport failures) of one session
PadChunks == 1    \* whole chunks of the large tables, besides a remainder

\* ------------------------------------------------------------ program constants
chunk_size == 50

VARIABLES
    mismatch_df,   \* st.session_state['mismatch_df']: index -> row
    pc,            \* "idle" | "run": position of the session
    df_to_fix,     \* the submitted rows: indexes in table order
    errors,        \* batch_process_mismatches's errors dict: index -> message
    gi,            \* 1-based position in the price groups
    c,             \* offset of the next attribute chunk (range(0, len(rows), chunk_size))
    requests,      \* the remote calls issued by the running dispatcher, in order
    raised,        \* an exception escaped batch_process_mismatches
    fixes,         \* completed fix actions
    faults         \* remote failures so far

\* the audit run (the block of app.py that loads the feed and calls the engine)
VARIABLES
    csv_df,        \* the source feed: 0-based position -> row (mutated by the engine)
    shopify_df,    \* the platform snapshot: 0-based position -> row (mutated by the engine)
    selected_file, \* the name of the feed file
    missing_df,    \* st.session_state['missing_df']: the missing-products records
    stale_df       \* what check_stale_clearance returned

audit_vars == <<csv_df, shopify_df, selected_file, missing_df, stale_df>>

\* the fetch of the platform snapshot and the creation of the missing products
VARIABLES
    remote,         \* the platform's catalogue: its variants, in the platform's order
    fetch_method,   \* the sidebar's fetch method: "Bulk" or "Paged" ("" before a choice)
    fetch_requests, \* the requests of the snapshot's fetch, in order, with their outcome
    st_error,       \* what st.error showed before st.stop ("" when the run went on)
    missing_index,  \* the index of st.session_state['missing_df']: positions of missing_df
    df_to_create,   \* the index of the rows the last process_creations was given
    creations,      \* the create_product calls of process_creations, in order
    error_logs      \* st.session_state['last_action_errors'] of process_creations

remote_vars == <<remote, fetch_method, fetch_requests, st_error>>

creation_vars == <<missing_index, df_to_create, creations, error_logs>>

vars == <<mismatch_df, pc, df_to_fix, errors, gi, c, requests, raised, fixes, faults,
          csv_df, shopify_df, selected_file, missing_df, stale_df,
          remote, fetch_method, fetch_requests, st_error,
          missing_index, df_to_create, creations, error_logs>>

\* ------------------------------------------------------------ helpers
Range(s) == {s[i] : i \in DOMAIN s}

Min(a, b) == IF a < b THEN a ELSE b

SeqsUpTo(S, n) == UNION {[1..k -> S] : k \in 0..n}

\* the integers of S in ascending order
SortedSeq(S) ==
    [i \in 1..Cardinality(S) |->
        CHOOSE x \in S : Cardinality({y \in S : y < x}) = i - 1]

EmptyMap == [i \in {} |-> <<>>]

\* dict.get(k, default)
Get(d, k, default) == IF k \in DOMAIN d THEN d[k] ELSE default

\* d[k] = v
Put(d, k, v) == [i \in DOMAIN d \cup {k} |-> IF i = k THEN v ELSE d[i]]

\* ------------------------------------------------------------ strings
SEP == "|"
COMMA == ","

\* str.strip(" |"): leading and trailing separator characters are removed
RECURSIVE lstrip(_)
lstrip(s) == IF s # <<>> /\ Head(s) = SEP THEN lstrip(Tail(s)) ELSE s

RECURSIVE rstrip(_)
rstrip(s) ==
    IF s # <<>> /\ s[Len(s)] = SEP THEN rstrip(SubSeq(s, 1, Len(s) - 1)) ELSE s

strip(s) == rstrip(lstrip(s))

\* ", ".join(msgs)
RECURSIVE join(_)
join(msgs) ==
    IF msgs = <<>> THEN <<>>
    ELSE IF Len(msgs) = 1 THEN <<msgs[1]>>
    ELSE <<msgs[1], COMMA>> \o join(Tail(msgs))

Contains(s, tok) == \E i \in DOMAIN s : s[i] = tok

\* A cell value: a number (a price) or a text.
Num(n) == [t |-> "num", n |-> n, s |-> ""]
Str(s) == [t |-> "str", n |-> 0, s |-> s]

\* str(value): a float price 10.0 prints as "10.0"
PyStr(v) == IF v.t = "num" THEN ToString(v.n) \o ".0" ELSE v.s

\* ------------------------------------------------------------ rule engine: template
\* a variant of ExpectedTemplate that looks at the clearance tag before the oversize tag
ExpectedTemplate_clearance_first(is_oversize, clearance_tag, real_discount, is_clearance_file) ==
    IF clearance_tag /\ real_discount THEN "clearance"
    ELSE IF is_oversize THEN "heavy-products"
    ELSE IF is_clearance_file /\ real_discount THEN "clearance"
    ELSE "default template"

\* expected_template of check_mismatches
ExpectedTemplate(is_oversize, clearance_tag, real_discount, is_clearance_file) ==
    LET byTags == IF is_oversize THEN "heavy-products"
                  ELSE IF clearance_tag /\ real_discount THEN "clearance"
                  ELSE "default template"
    IN IF is_clearance_file /\ byTags = "default template"
          /\ real_discount /\ ~is_oversize
       THEN "clearance"
       ELSE byTags

ExpectedTemplates(is_clearance_file) ==
    {ExpectedTemplate(o, t, d, is_clearance_file) : o \in BOOLEAN, t \in BOOLEAN, d \in BOOLEAN}

\* csv_value of an incorrect_template_suffix record
display_expected(expected_template) ==
    IF expected_template = "default template" THEN "Default Template"
    ELSE expected_template

\* ------------------------------------------------------------ discrepancy rows
PriceFields == {"price", "compare_at_price", "sticky_sale"}
ManualField == "stale_clearance_tag"
TagFields == {"missing_oversize_tag", "missing_clearance_tag"}

\* make_mismatch, with the Error_Log column the audit adds
make_mismatch(field, csv_val, variant_id, product_id, fixed) ==
    [field |-> field, csv_value |-> csv_val, variant_id |-> variant_id,
     product_id |-> product_id, fixed_descriptionHtml |-> fixed, Error_Log |-> <<>>]

\* The records of the kinds `kinds` one matched variant can yield, in the order of
\* the rules.
VariantRecords(variant_id, product_id, is_clearance_file, kinds) ==
    LET rec(field, csv_val, fixed) ==
            IF field \in kinds
            THEN <<make_mismatch(field, csv_val, variant_id, product_id, fixed)>>
            ELSE <<>>
        expected == SelectSeq(<<"heavy-products", "clearance", "default template">>,
                              LAMBDA e : e \in ExpectedTemplates(is_clearance_file))
    IN rec("price", Num(10), "nan")
       \o (IF is_clearance_file
           THEN rec("compare_at_price", Num(20), "nan")
           ELSE rec("sticky_sale", Str("N/A (Should be null or equal to price)"), "nan"))
       \o (IF "incorrect_template_suffix" \in kinds
           THEN [k \in 1..Len(expected) |->
                    make_mismatch("incorrect_template_suffix",
                                  Str(display_expected(expected[k])),
                                  variant_id, product_id, "nan")]
           ELSE <<>>)
       \o rec("missing_oversize_tag", Str("oversize or overweight"), "nan")
       \o (IF is_clearance_file
           THEN rec("clearance_price_mismatch", Str("Regular Price (No Clearance)"), "nan")
                \o rec("missing_clearance_tag", Str("Clearance"), "nan")
           ELSE <<>>)
       \o rec("h1_in_description", Str("Uses H2 Tags"), "<h2>T</h2>")

\* A StaleFlag of check_stale_clearance
StaleRecord(variant_id, product_id) ==
    make_mismatch(ManualField, Str("Not in Clearance file"), variant_id, product_id, "nan")

AllKinds ==
    PriceFields \cup TagFields
    \cup {"incorrect_template_suffix", "clearance_price_mismatch", "h1_in_description"}

\* The records an audit can yield for three matched variants (11 and 12 of product
\* 1, 21 of product 2) and, with a clearance feed, one platform-only variant, in
\* the audit's order.
Universe(is_clearance_file) ==
    IF is_clearance_file
    THEN VariantRecords(11, 1, TRUE, AllKinds)
         \o VariantRecords(12, 1, TRUE, {"price"})
         \o VariantRecords(21, 2, TRUE, {"price"})
         \o <<StaleRecord(31, 3)>>
    ELSE VariantRecords(11, 1, FALSE, {"price", "sticky_sale", "missing_oversize_tag"})
         \o VariantRecords(12, 1, FALSE, {"sticky_sale"})
         \o VariantRecords(21, 2, FALSE, {"sticky_sale"})

\* The attribute record of the i-th variant of a large audit: the kinds take turns.
LargeRecord(i) ==
    LET kinds == <<"incorrect_template_suffix", "missing_oversize_tag",
                   "clearance_price_mismatch", "h1_in_description", "missing_clearance_tag">>
        recs == VariantRecords(100 + i, 100 + i, TRUE, {kinds[(i % Len(kinds)) + 1]})
    IN recs[(i % Len(recs)) + 1]

\* The table of a large clearance audit: a price record, then n attribute records,
\* then a StaleFlag.
LargeTable(n) ==
    [i \in 0..(n + 1) |->
        IF i = 0 THEN VariantRecords(11, 1, TRUE, {"price"})[1]
        ELSE IF i = n + 1 THEN StaleRecord(31, 3)
        ELSE LargeRecord(i)]

\* PadChunks whole chunks of attribute records, and up to two records more
LargeTables == {LargeTable(PadChunks * chunk_size + r) : r \in 0..2}

\* One variant yields at most one record of a kind, and the two clearance checks
\* exclude each other.
Compatible(a, b) ==
    a.variant_id = b.variant_id =>
        /\ a.field # b.field
        /\ {a.field, b.field} # {"clearance_price_mismatch", "missing_clearance_tag"}

\* The table (RangeIndex 0..n-1) holding the records of U at the positions S.
TableOf(U, S) ==
    LET pos == SortedSeq(S) IN [i \in 0..(Len(pos) - 1) |-> U[pos[i + 1]]]

Tables ==
    UNION {
        {TableOf(Universe(f), S) :
            S \in {P \in SUBSET (1..Len(Universe(f))) :
                     /\ Cardinality(P) \in 1..MaxRows
                     /\ \A i \in P, j \in P :
                            i # j => Compatible(Universe(f)[i], Universe(f)[j])}}
        : f \in BOOLEAN}

\* ------------------------------------------------------------ the remote's answers
\* The k-th failure the remote reports in a session carries the message Msg(k).
Msg(k) == "m" \o ToString(k)
TransportError == "HTTPError"
TypeErrorText == "object of type 'NoneType' has no len()"

\* The field of a userError for a group of g variants: null, empty (or absent), a
\* path whose position is text, and ["variants", k, "price"] for k in 0..g (k = g
\* is no position of the list).
FieldPaths(g) ==
    {<<>>, <<Str("variants"), Str("0"), Str("price")>>}
    \cup {<<Str("variants"), Num(k), Str("price")>> : k \in 0..g}

Fields(g) ==
    [field_null : {FALSE}, field : FieldPaths(g)]
    \cup {[field_null |-> TRUE, field |-> <<>>]}

NoAnswer == [raise |-> FALSE, exc |-> "", userErrors |-> <<>>, data |-> <<>>]

\* What execute_graphql_query does for a price group of g variants after `used`
\* failures: it raises, or returns userErrors (at most `budget` entries).
PriceResponses(g, budget, used) ==
    {[NoAnswer EXCEPT !.userErrors =
        [j \in 1..Len(fs) |->
            [field_null |-> fs[j].field_null, field |-> fs[j].field,
             message |-> Msg(used + j)]]] :
        fs \in SeqsUpTo(Fields(g), budget)}
    \cup (IF budget > 0
          THEN {[NoAnswer EXCEPT !.raise = TRUE, !.exc = TransportError]}
          ELSE {})

\* ------------------------------------------------------------ dispatcher: prices
\* df_to_fix[df_to_fix['field'].isin([...])]
price_df(df, sel) == SelectSeq(sel, LAMBDA idx : df[idx].field \in PriceFields)

other_df(df, sel) ==
    SelectSeq(sel, LAMBDA idx : df[idx].field \notin (PriceFields \cup {ManualField}))

manual_df(df, sel) == SelectSeq(sel, LAMBDA idx : df[idx].field = ManualField)

\* price_df.groupby('product_id'): the keys in ascending order
group_keys(df, sel) == SortedSeq({df[idx].product_id : idx \in Range(price_df(df, sel))})

\* a variant of group_rows that does not split by product
group_rows_unsplit(df, sel, product_id) == price_df(df, sel)

\* the rows of one group, in the order of the table
group_rows(df, sel, product_id) ==
    SelectSeq(price_df(df, sel), LAMBDA idx : df[idx].product_id = product_id)

\* the unit request of one row
variant_mutation(row) ==
    IF row.field = "price"
    THEN [id |-> row.variant_id, key |-> "price", value |-> PyStr(row.csv_value)]
    ELSE IF row.field = "compare_at_price"
    THEN [id |-> row.variant_id, key |-> "compareAtPrice", value |-> PyStr(row.csv_value)]
    ELSE [id |-> row.variant_id, key |-> "compareAtPrice", value |-> "null"]

\* idx_map: list position (from 0) -> DataFrame index
make_idx_map(group) == [v_i \in 0..(Len(group) - 1) |-> group[v_i + 1]]

\* a variant of attribute_user_error that never reads the position
attribute_user_error_unparsed(errs, idx_map, e) ==
    [idx \in DOMAIN errs \cup Range(idx_map) |->
        IF idx \in Range(idx_map)
        THEN Get(errs, idx, <<>>) \o <<e.message, SEP>>
        ELSE errs[idx]]

\* The body of `for e in user_errors` for an entry whose field is a list.
attribute_user_error(errs, idx_map, e) ==
    LET field_path == e.field IN
    IF Len(field_path) >= 2 /\ field_path[1] = Str("variants") /\ field_path[2].t = "num"
    THEN LET v_idx == field_path[2].n IN
         IF v_idx \in DOMAIN idx_map
         THEN Put(errs, idx_map[v_idx], <<e.message>>)
         ELSE errs
    ELSE [idx \in DOMAIN errs \cup Range(idx_map) |->
            IF idx \in Range(idx_map)
            THEN Get(errs, idx, <<>>) \o <<e.message, SEP>>
            ELSE errs[idx]]

\* for e in user_errors: ...; len(None) raises TypeError
RECURSIVE user_errors_loop(_, _, _)
user_errors_loop(errs, idx_map, user_errors) ==
    IF user_errors = <<>> THEN [errors |-> errs, exc |-> ""]
    ELSE LET e == Head(user_errors) IN
         IF e.field_null THEN [errors |-> errs, exc |-> TypeErrorText]
         ELSE user_errors_loop(attribute_user_error(errs, idx_map, e),
                               idx_map, Tail(user_errors))

\* a variant of mark_all that lets the exception escape
mark_all_reraise(errs, rows, exc) == [errors |-> errs, raised |-> TRUE]

\* a variant of mark_all that marks every submitted row
mark_all_submitted(errs, rows, exc) ==
    [errors |-> [idx \in DOMAIN errs \cup Range(df_to_fix) |-> <<exc>>],
     raised |-> FALSE]

\* except Exception as e: every row of the group gets str(e)
mark_all(errs, rows, exc) ==
    [errors |-> [idx \in DOMAIN errs \cup rows |->
                    IF idx \in rows THEN <<exc>> ELSE errs[idx]],
     raised |-> FALSE]

\* try: ... except: ... of one price group
price_try(errs, idx_map, resp) ==
    IF resp.raise THEN mark_all(errs, Range(idx_map), resp.exc)
    ELSE LET r == user_errors_loop(errs, idx_map, resp.userErrors) IN
         IF r.exc # "" THEN mark_all(r.errors, Range(idx_map), r.exc)
         ELSE [errors |-> r.errors, raised |-> FALSE]

\* what one answer costs of the session's failures
Cost(resp) ==
    IF resp.raise THEN 1
    ELSE Len(resp.userErrors)
         + Len(SelectSeq(resp.data, LAMBDA res : res.userErrors # <<>>))

\* ------------------------------------------------------------ dispatcher: attributes
\* alias f"mut_{i}" with its part: "", "_tag" or "_suffix"
Alias(i, part) == [i |-> i, part |-> part]

\* alias.replace('_tag', '').replace('_suffix', '')
base_alias(alias) == [alias EXCEPT !.part = ""]

\* the sub-operations of the row at position i of a chunk
sub_operations(i, row) ==
    IF row.field \in TagFields
    THEN <<[alias |-> Alias(i, ""), op |-> "tagsAdd", id |-> row.product_id,
            arg |-> IF row.field = "missing_oversize_tag" THEN "oversize" ELSE "clearance"]>>
    ELSE IF row.field = "clearance_price_mismatch"
    THEN <<[alias |-> Alias(i, "_tag"), op |-> "tagsRemove", id |-> row.product_id,
            arg |-> "clearance"],
           [alias |-> Alias(i, "_suffix"), op |-> "templateSuffix", id |-> row.product_id,
            arg |-> ""]>>
    ELSE IF row.field = "incorrect_template_suffix"
    THEN <<[alias |-> Alias(i, ""), op |-> "templateSuffix", id |-> row.product_id,
            arg |-> IF row.csv_value # Str("None") THEN PyStr(row.csv_value) ELSE ""]>>
    ELSE IF row.field = "h1_in_description"
    THEN <<[alias |-> Alias(i, ""), op |-> "descriptionHtml", id |-> row.product_id,
            arg |-> row.fixed_descriptionHtml]>>
    ELSE <<>>

\* query_parts of the rows lo..hi (from 1) of a chunk, in the order of the rows
RECURSIVE query_parts(_, _, _, _)
query_parts(df, chunk, lo, hi) ==
    IF lo > hi THEN <<>>
    ELSE IF lo = hi THEN sub_operations(lo - 1, df[chunk[lo]])
    ELSE LET mid == (lo + hi) \div 2
         IN query_parts(df, chunk, lo, mid) \o query_parts(df, chunk, mid + 1, hi)

\* idx_to_alias: alias -> DataFrame index
make_idx_to_alias(chunk) ==
    [a \in {Alias(i, "") : i \in 0..(Len(chunk) - 1)} |-> chunk[a.i + 1]]

\* a variant of chunk_at that always takes the first rows
chunk_at_first(rows, off) == SubSeq(rows, 1, Min(chunk_size, Len(rows)))

\* rows[c:c+chunk_size]
chunk_at(rows, off) == SubSeq(rows, off + 1, Min(off + chunk_size, Len(rows)))

\* The remote reports failures of the first MaxRows and of the last sub-operations
\* of a request, and may answer under an alias nobody asked for.
Probed(i, len) == i < MaxRows \/ i >= len - 1

\* The data of a composite answer: one entry per alias in the order of the query,
\* then an alias that is not in the query; `fs` lists the failures reported.
answer_data(keys, fs, used) ==
    [k \in 1..Len(keys) |->
        [alias |-> keys[k],
         userErrors |->
            LET mine == SelectSeq([j \in 1..Len(fs) |-> [key |-> fs[j], message |-> Msg(used + j)]],
                                  LAMBDA f : f.key = k)
            IN [j \in 1..Len(mine) |-> mine[j].message]]]

AttrResponses(ops, len, budget, used) ==
    LET keys == [k \in 1..Len(ops) |-> ops[k].alias] \o <<Alias(len, "")>>
        targets == {k \in 1..Len(keys) : Probed(keys[k].i, len)}
    IN {[NoAnswer EXCEPT !.data = answer_data(keys, fs, used)] :
            fs \in SeqsUpTo(targets, budget)}
       \cup (IF budget > 0
             THEN {[NoAnswer EXCEPT !.raise = TRUE, !.exc = TransportError]}
             ELSE {})

\* a variant of record_alias_errors that assigns instead of adding
record_alias_errors_assign(errs, idx_to_alias, res) ==
    LET user_errors == res.userErrors IN
    IF user_errors # <<>>
    THEN LET msg == join(user_errors)
             base == base_alias(res.alias)
         IN IF base \in DOMAIN idx_to_alias
            THEN Put(errs, idx_to_alias[base], msg \o <<SEP>>)
            ELSE errs
    ELSE errs

\* the body of `for alias, _ in data.items()`
record_alias_errors(errs, idx_to_alias, res) ==
    LET user_errors == res.userErrors IN
    IF user_errors # <<>>
    THEN LET msg == join(user_errors)
             base == base_alias(res.alias)
         IN IF base \in DOMAIN idx_to_alias
            THEN LET real_idx == idx_to_alias[base]
                 IN Put(errs, real_idx, Get(errs, real_idx, <<>>) \o msg \o <<SEP>>)
            ELSE errs
    ELSE errs

\* for alias, _ in data.items(): ...; the body does nothing for an entry without
\* userErrors, so the loop runs over the entries that have some
RECURSIVE data_loop(_, _, _)
data_loop(errs, idx_to_alias, data) ==
    IF data = <<>> THEN errs
    ELSE data_loop(record_alias_errors(errs, idx_to_alias, Head(data)),
                   idx_to_alias, Tail(data))

\* try: ... except: ... of one attribute chunk
chunk_try(errs, idx_to_alias, resp) ==
    IF resp.raise THEN mark_all(errs, Range(idx_to_alias), resp.exc)
    ELSE [errors |-> data_loop(errs, idx_to_alias,
                                 SelectSeq(resp.data, LAMBDA res : res.userErrors # <<>>)), raised |-> FALSE]

\* ------------------------------------------------------------ dispatcher: the end
\* errors[k] = v.strip(" |")
strip_errors(errs) == [idx \in DOMAIN errs |-> strip(errs[idx])]

ManualMessage == "Manual review required"

\* a variant of mark_manual that leaves the map as it is
mark_manual_skip(errs, manual) == errs

\* for idx, _ in manual_df.iterrows(): errors[idx] = "Manual review required"
mark_manual(errs, manual) ==
    [idx \in DOMAIN errs \cup Range(manual) |->
        IF idx \in Range(manual) THEN <<ManualMessage>> ELSE errs[idx]]

\* the dict batch_process_mismatches returns
returned_errors(df, sel, errs) == mark_manual(strip_errors(errs), manual_df(df, sel))

\* a variant of process_fixes that drops every submitted row
process_fixes_drop_all(df, sel, errors_dict) ==
    [idx \in DOMAIN df \ Range(sel) |-> df[idx]]

\* a variant of process_fixes that keeps only the rows of the error map
process_fixes_keep_failed(df, sel, errors_dict) ==
    [idx \in DOMAIN df \cap DOMAIN errors_dict |->
        [df[idx] EXCEPT !.Error_Log = errors_dict[idx]]]

\* process_fixes after the dispatcher returned: drop the rows that succeeded,
\* write Error_Log of the rows that failed
process_fixes(df, sel, errors_dict) ==
    LET success_count == Len(sel) - Cardinality(DOMAIN errors_dict)
        error_count == Cardinality(DOMAIN errors_dict)
        successful_indices == {idx \in Range(sel) : idx \notin DOMAIN errors_dict}
        kept == IF success_count > 0 THEN DOMAIN df \ successful_indices ELSE DOMAIN df
    IN [idx \in kept |->
            IF error_count > 0 /\ idx \in DOMAIN errors_dict
            THEN [df[idx] EXCEPT !.Error_Log = errors_dict[idx]]
            ELSE df[idx]]

\* ------------------------------------------------------------ the session
\* The rows a fix action can be given: "Fix All" over the table, or "Fix Selected"
\* over ticked rows (ticked among the first MaxRows rows).
Selections(df) ==
    ({DOMAIN df} \cup SUBSET {idx \in DOMAIN df : idx < MaxRows}) \ {{}}

PriceGroups == group_keys(mismatch_df, df_to_fix)
OtherRows == other_df(mismatch_df, df_to_fix)

\* the dispatcher has processed every group and chunk and is about to return
AtReturn == pc = "run" /\ gi > Len(PriceGroups) /\ c >= Len(OtherRows)

ReturnedErrors == returned_errors(mismatch_df, df_to_fix, errors)

\* a session that fetched nothing and created nothing yet
NoFetch ==
    /\ remote = <<>>
    /\ fetch_method = ""
    /\ fetch_requests = <<>>
    /\ st_error = ""
    /\ missing_index = {}
    /\ df_to_create = {}
    /\ creations = <<>>
    /\ error_logs = <<>>

\* a session whose audit is over: the tables of the audit run play no part
NoAudit ==
    /\ csv_df = <<>>
    /\ shopify_df = <<>>
    /\ selected_file = ""
    /\ missing_df = <<>>
    /\ stale_df = <<>>
    /\ NoFetch

Init ==
    /\ NoAudit
    /\ mismatch_df \in Tables
    /\ pc = "idle"
    /\ df_to_fix = <<>>
    /\ errors = EmptyMap
    /\ gi = 1
    /\ c = 0
    /\ requests = <<>>
    /\ raised = FALSE
    /\ fixes = 0
    /\ faults = 0

\* process_fixes(df_to_fix) is called with a non-empty selection and enters
\* batch_process_mismatches
StartFix ==
    /\ pc = "idle"
    /\ fixes < MaxFixes
    /\ \E sel \in Selections(mismatch_df) : df_to_fix' = SortedSeq(sel)
    /\ pc' = "run"
    /\ errors' = EmptyMap
    /\ gi' = 1
    /\ c' = 0
    /\ requests' = <<>>
    /\ UNCHANGED <<mismatch_df, raised, fixes, faults>>
    /\ UNCHANGED audit_vars
    /\ UNCHANGED <<remote_vars, creation_vars>>

\* one iteration of `for product_id, group in price_df.groupby('product_id')`
PriceStep ==
    /\ pc = "run"
    /\ gi <= Len(PriceGroups)
    /\ LET product_id == PriceGroups[gi]
           group == group_rows(mismatch_df, df_to_fix, product_id)
           idx_map == make_idx_map(group)
           variants_input == [k \in 1..Len(group) |-> variant_mutation(mismatch_df[group[k]])]
       IN \E resp \in PriceResponses(Len(group), MaxFaults - faults, faults) :
            LET out == price_try(errors, idx_map, resp) IN
            /\ errors' = out.errors
            /\ raised' = out.raised
            /\ pc' = IF out.raised THEN "idle" ELSE "run"
            /\ faults' = faults + Cost(resp)
            /\ requests' = Append(requests,
                   [api |-> "productVariantsBulkUpdate", productId |-> product_id,
                    units |-> variants_input, rows |-> group, map |-> idx_map,
                    resp |-> resp])
    /\ gi' = gi + 1
    /\ UNCHANGED <<mismatch_df, df_to_fix, c, fixes>>
    /\ UNCHANGED audit_vars
    /\ UNCHANGED <<remote_vars, creation_vars>>

\* one iteration of `for c in range(0, len(rows), chunk_size)`
AttrStep ==
    /\ pc = "run"
    /\ gi > Len(PriceGroups)
    /\ c < Len(OtherRows)
    /\ LET chunk == chunk_at(OtherRows, c)
           ops == query_parts(mismatch_df, chunk, 1, Len(chunk))
           idx_to_alias == make_idx_to_alias(chunk)
       IN IF ops = <<>>
          THEN UNCHANGED <<errors, raised, pc, faults, requests>>
          ELSE \E resp \in AttrResponses(ops, Len(chunk), MaxFaults - faults, faults) :
                 LET out == chunk_try(errors, idx_to_alias, resp) IN
                 /\ errors' = out.errors
                 /\ raised' = out.raised
                 /\ pc' = IF out.raised THEN "idle" ELSE "run"
                 /\ faults' = faults + Cost(resp)
                 /\ requests' = Append(requests,
                        [api |-> "batchUpdate", productId |-> 0,
                         units |-> ops, rows |-> chunk, map |-> idx_to_alias,
                         resp |-> resp])
    /\ c' = c + chunk_size
    /\ UNCHANGED <<mismatch_df, df_to_fix, gi, fixes>>
    /\ UNCHANGED audit_vars
    /\ UNCHANGED <<remote_vars, creation_vars>>

\* the dispatcher returns and process_fixes updates the working table
FinishFix ==
    /\ AtReturn
    /\ mismatch_df' = process_fixes(mismatch_df, df_to_fix, ReturnedErrors)
    /\ pc' = "idle"
    /\ fixes' = fixes + 1
    /\ df_to_fix' = <<>>
    /\ errors' = EmptyMap
    /\ gi' = 1
    /\ c' = 0
    /\ requests' = <<>>
    /\ UNCHANGED <<raised, faults>>
    /\ UNCHANGED audit_vars
    /\ UNCHANGED <<remote_vars, creation_vars>>

\* a session whose last fix action is given a large table
InitLarge ==
    /\ NoAudit
    /\ mismatch_df \in LargeTables
    /\ pc = "idle"
    /\ df_to_fix = <<>>
    /\ errors = EmptyMap
    /\ gi = 1
    /\ c = 0
    /\ requests = <<>>
    /\ raised = FALSE
    /\ fixes = MaxFixes - 1
    /\ faults = 0

Next == StartFix \/ PriceStep \/ AttrStep \/ FinishFix

Spec == Init /\ [][Next]_vars

SpecLarge == InitLarge /\ [][Next]_vars

\* ------------------------------------------------------------ engine: cells
\* A cell of the feed or of the snapshot.  A text is a sequence of characters;
\* a number is a float counted in hundredths (the feeds carry at most two
\* decimals).
NaN == [t |-> "nan", n |-> 0, s |-> <<>>]
PyNone == [t |-> "none", n |-> 0, s |-> <<>>]
Raw(chars) == [t |-> "raw", n |-> 0, s |-> chars]
Float(h) == [t |-> "float", n |-> h, s |-> <<>>]
Inf(sign) == [t |-> "inf", n |-> sign, s |-> <<>>]

\* pd.notna / pd.isna
notna(v) == v.t \notin {"nan", "none"}
isna(v) == ~notna(v)

DigitChars == <<"0", "1", "2", "3", "4", "5", "6", "7", "8", "9">>
IsDigit(ch) == \E i \in DOMAIN DigitChars : DigitChars[i] = ch
DigitVal(ch) == (CHOOSE i \in DOMAIN DigitChars : DigitChars[i] = ch) - 1

\* str(n) of a natural number
RECURSIVE DigitsOf(_)
DigitsOf(n) ==
    IF n < 10 THEN <<DigitChars[n + 1]>>
    ELSE DigitsOf(n \div 10) \o <<DigitChars[(n % 10) + 1]>>

\* int(digits) of a sequence of digits
RECURSIVE NatOf(_)
NatOf(ds) ==
    IF ds = <<>> THEN 0
    ELSE 10 * NatOf(SubSeq(ds, 1, Len(ds) - 1)) + DigitVal(ds[Len(ds)])

RECURSIVE Pow10(_)
Pow10(k) == IF k = 0 THEN 1 ELSE 10 * Pow10(k - 1)

Abs(n) == IF n < 0 THEN -n ELSE n

\* a variant of float_repr that prints the whole part only
float_repr_whole(h) ==
    (IF h < 0 THEN <<"-">> ELSE <<>>) \o DigitsOf(Abs(h) \div 100) \o <<".", "0">>

\* repr of a float, the shortest text that reads back as the same float
float_repr(h) ==
    LET whole == Abs(h) \div 100
        frac == Abs(h) % 100
    IN (IF h < 0 THEN <<"-">> ELSE <<>>)
       \o DigitsOf(whole) \o <<".">>
       \o (IF frac % 10 = 0 THEN DigitsOf(frac \div 10)
           ELSE <<DigitChars[(frac \div 10) + 1], DigitChars[(frac % 10) + 1]>>)

\* Series.astype(str) of one cell
astype_str(v) ==
    IF v.t = "raw" THEN v.s
    ELSE IF v.t = "nan" THEN <<"n", "a", "n">>
    ELSE IF v.t = "none" THEN <<"N", "o", "n", "e">>
    ELSE IF v.t = "inf" THEN (IF v.n < 0 THEN <<"-">> ELSE <<>>) \o <<"i", "n", "f">>
    ELSE float_repr(v.n)

\* str.lower() on the letters the feeds use
UpperChars == <<"A", "B", "C", "E", "F", "I", "N", "O", "X">>
LowerChars == <<"a", "b", "c", "e", "f", "i", "n", "o", "x">>
lower_char(ch) ==
    IF \E i \in DOMAIN UpperChars : UpperChars[i] = ch
    THEN LowerChars[CHOOSE i \in DOMAIN UpperChars : UpperChars[i] = ch]
    ELSE ch
str_lower(chars) == [i \in DOMAIN chars |-> lower_char(chars[i])]

\* str.strip(): leading and trailing blanks
RECURSIVE str_lstrip(_)
str_lstrip(chars) ==
    IF chars # <<>> /\ Head(chars) = " " THEN str_lstrip(Tail(chars)) ELSE chars
RECURSIVE str_rstrip(_)
str_rstrip(chars) ==
    IF chars # <<>> /\ chars[Len(chars)] = " "
    THEN str_rstrip(SubSeq(chars, 1, Len(chars) - 1)) ELSE chars
str_strip(chars) == str_rstrip(str_lstrip(chars))

\* astype(str).str.replace(r'[\$,]', '', regex=True).str.strip()
cleaned_series(v) ==
    str_strip(SelectSeq(astype_str(v), LAMBDA ch : ch \notin {"$", ","}))

\* str.match(r'^-?\d*\.?\d+$')
valid_number_regex(chars) ==
    LET body == IF chars # <<>> /\ Head(chars) = "-" THEN Tail(chars) ELSE chars
    IN /\ body # <<>>
       /\ \A i \in DOMAIN body : IsDigit(body[i]) \/ body[i] = "."
       /\ Cardinality({i \in DOMAIN body : body[i] = "."}) <= 1
       /\ IsDigit(body[Len(body)])

\* bad_data_mask: the values the engine reports as invalid numbers
bad_data_mask(v) ==
    LET cs == cleaned_series(v) IN
    /\ cs # <<>>
    /\ str_lower(cs) \notin {<<"n", "a", "n">>, <<"n", "o", "n", "e">>, <<"<", "n", "a", ">">>}
    /\ ~valid_number_regex(cs)

\* the hundredths of digits [. digits]; -1 when the text is no such mantissa
mantissa(chars) ==
    LET dots == {i \in DOMAIN chars : chars[i] = "."}
        dot == IF dots = {} THEN Len(chars) + 1 ELSE CHOOSE i \in dots : TRUE
        whole == SubSeq(chars, 1, dot - 1)
        frac == SubSeq(chars, dot + 1, Len(chars))
    IN IF \/ chars = <<>>
          \/ Cardinality(dots) > 1
          \/ \E i \in DOMAIN chars : ~(IsDigit(chars[i]) \/ chars[i] = ".")
          \/ whole \o frac = <<>>
       THEN -1
       ELSE NatOf(whole) * 100
            + (IF frac = <<>> THEN 0
               ELSE IF Len(frac) = 1 THEN 10 * NatOf(frac)
               ELSE NatOf(SubSeq(frac, 1, 2)))

\* pd.to_numeric(text, errors='coerce') of one cleaned text: a sign, a mantissa and
\* an exponent are read as a float, "inf" and "infinity" as an infinity, and
\* everything else becomes NaN
to_numeric(chars) ==
    LET signed == chars # <<>> /\ Head(chars) \in {"-", "+"}
        sign == IF signed /\ Head(chars) = "-" THEN -1 ELSE 1
        body == IF signed THEN Tail(chars) ELSE chars
        es == {i \in DOMAIN body : body[i] \in {"e", "E"}}
        epos == IF es = {} THEN Len(body) + 1 ELSE CHOOSE i \in es : \A j \in es : i <= j
        m == mantissa(SubSeq(body, 1, epos - 1))
        etext == SubSeq(body, epos + 1, Len(body))
        esigned == etext # <<>> /\ Head(etext) \in {"-", "+"}
        edigits == IF esigned THEN Tail(etext) ELSE etext
        eok == es = {} \/ (edigits # <<>> /\ \A i \in DOMAIN edigits : IsDigit(edigits[i]))
        e == IF es = {} THEN 0 ELSE NatOf(edigits)
    IN IF str_lower(body) \in {<<"i", "n", "f">>, <<"i", "n", "f", "i", "n", "i", "t", "y">>}
       THEN Inf(sign)
       ELSE IF m < 0 \/ ~eok THEN NaN
       ELSE IF esigned /\ Head(etext) = "-" THEN Float(sign * (m \div Pow10(e)))
       ELSE Float(sign * m * Pow10(e))

\* validate_and_coerce on one cell: df[col] = pd.to_numeric(cleaned_series, errors='coerce')
validate_and_coerce(v) == to_numeric(cleaned_series(v))

\* ------------------------------------------------------------ engine: rows
\* A word is a text the engine only folds, trims and compares as a whole: a tag, a
\* template name, a tag of the description.  Word(w) is the text holding w alone.
Word(w) == Raw(<<w>>)

\* str.lower() and str.strip() on the words the tables use
LowerTable ==
    <<<<"Clearance", "clearance">>, <<"Oversize", "oversize">>,
      <<"Overweight", "overweight">>, <<" Overweight", " overweight">>,
      <<"Null", "null">>, <<"None", "none">>,
      <<"Default Template", "default template">>>>
StripTable ==
    <<<<" overweight", "overweight">>, <<" clearance", "clearance">>,
      <<" Clearance", "Clearance">>, <<" oversize", "oversize">>>>
translate(table, w) ==
    IF \E i \in DOMAIN table : table[i][1] = w
    THEN table[CHOOSE i \in DOMAIN table : table[i][1] = w][2]
    ELSE w
word_lower(w) == translate(LowerTable, w)
word_strip(w) == translate(StripTable, w)

\* {t.strip().lower() for t in raw.split(',')} if raw and raw != 'nan' else set();
\* the cell holds the texts between the commas; str(None) is 'None'
parse_tags(cell) ==
    IF cell.t = "raw"
    THEN {word_lower(word_strip(cell.s[i])) : i \in DOMAIN cell.s}
    ELSE IF cell.t = "none" THEN {"none"}
    ELSE {}

\* df['sku'].astype(str).str.lower().str.strip()
sku_lower(row) == str_strip(str_lower(astype_str(row.sku)))

\* the numeric columns of the feed after validate_and_coerce
coerce_csv(df) ==
    [i \in DOMAIN df |->
        [df[i] EXCEPT !.price = validate_and_coerce(@),
                      !.compareAtPrice = validate_and_coerce(@)]]

\* the numeric columns of the snapshot after validate_and_coerce
coerce_shopify(df) ==
    [j \in DOMAIN df |->
        [df[j] EXCEPT !.price = validate_and_coerce(@),
                      !.compareAtPrice = validate_and_coerce(@),
                      !.inventoryQuantity = validate_and_coerce(@)]]

\* the order of two characters, and of two texts, as Python compares them
CharOrder ==
    <<" ", "$", ",", "-", ".", "0", "1", "2", "3", "4", "5", "6", "7", "8", "9",
      "<", ">", "N", "a", "b", "c", "e", "f", "i", "n", "o", "x">>
CharRank(ch) == CHOOSE i \in DOMAIN CharOrder : CharOrder[i] = ch
RECURSIVE text_less(_, _)
text_less(a, b) ==
    IF b = <<>> THEN FALSE
    ELSE IF a = <<>> THEN TRUE
    ELSE IF Head(a) = Head(b) THEN text_less(Tail(a), Tail(b))
    ELSE CharRank(Head(a)) < CharRank(Head(b))

\* the keys of an outer merge, sorted
merge_keys(csv, shop) ==
    LET keys == {sku_lower(csv[i]) : i \in DOMAIN csv}
                \cup {sku_lower(shop[j]) : j \in DOMAIN shop}
    IN [k \in 1..Cardinality(keys) |->
            CHOOSE x \in keys : Cardinality({y \in keys : text_less(y, x)}) = k - 1]

\* the rows of merged that carry one key: every pair of a feed row and a snapshot
\* row with the key, or the one-sided rows (position 0 stands for no row)
key_rows(csv, shop, key) ==
    LET lefts == SelectSeq([i \in DOMAIN csv |-> i], LAMBDA i : sku_lower(csv[i]) = key)
        rights == SelectSeq([j \in DOMAIN shop |-> j], LAMBDA j : sku_lower(shop[j]) = key)
    IN IF rights = <<>> THEN [k \in DOMAIN lefts |-> [csv |-> lefts[k], shopify |-> 0]]
       ELSE IF lefts = <<>> THEN [k \in DOMAIN rights |-> [csv |-> 0, shopify |-> rights[k]]]
       ELSE [k \in 1..(Len(lefts) * Len(rights)) |->
                [csv |-> lefts[((k - 1) \div Len(rights)) + 1],
                 shopify |-> rights[((k - 1) % Len(rights)) + 1]]]

\* pd.merge(csv_df, shopify_df, on='sku_lower', how='outer')
RECURSIVE merge_from(_, _, _, _)
merge_from(csv, shop, keys, k) ==
    IF k > Len(keys) THEN <<>>
    ELSE key_rows(csv, shop, keys[k]) \o merge_from(csv, shop, keys, k + 1)

merged(csv, shop) == merge_from(csv, shop, merge_keys(csv, shop), 1)

\* merged['sku_csv'] and merged['sku_shopify'] of a row of merged
sku_csv(csv, m) == IF m.csv = 0 THEN NaN ELSE csv[m.csv].sku
sku_shopify(shop, m) == IF m.shopify = 0 THEN NaN ELSE shop[m.shopify].sku

\* merged[merged['sku_csv'].notna() & merged['sku_shopify'].notna()]
is_match(csv, shop, m) == notna(sku_csv(csv, m)) /\ notna(sku_shopify(shop, m))

\* a variant of is_missing that does not look at the platform's key
is_missing_any(csv, shop, m) == notna(sku_csv(csv, m))

\* merged[merged['sku_csv'].notna() & merged['sku_shopify'].isna()]
is_missing(csv, shop, m) == notna(sku_csv(csv, m)) /\ isna(sku_shopify(shop, m))

\* ------------------------------------------------------------ engine: rules
\* a < b and a > b on two numbers; a comparison with NaN or None is False
num_val(v) == IF v.t = "inf" THEN v.n * 1000000000 ELSE v.n
num_lt(a, b) == notna(a) /\ notna(b) /\ num_val(a) < num_val(b)
num_gt(a, b) == num_lt(b, a)

\* matches['has_discount_csv']
has_discount_csv(cr) == notna(cr.compareAtPrice) /\ num_lt(cr.price, cr.compareAtPrice)

\* a variant of parent_discounts that looks at every matched row, whatever its handle
parent_discounts_any_group(csv, shop, m) ==
    LET all == merged(csv, shop) IN
    \E k \in DOMAIN all :
        /\ is_match(csv, shop, all[k])
        /\ has_discount_csv(csv[all[k].csv])

\* matches.groupby('handle_csv')['has_discount_csv'].transform('any') at one row
\* (every row of the feed carries a handle)
parent_discounts(csv, shop, m) ==
    LET all == merged(csv, shop) IN
    \E k \in DOMAIN all :
        /\ is_match(csv, shop, all[k])
        /\ csv[all[k].csv].handle = csv[m.csv].handle
        /\ has_discount_csv(csv[all[k].csv])

\* the record make_mismatch builds for the matched row idx of merged; idx names
\* the row by the positions of the feed row and of the snapshot row it joins
make_row_mismatch(idx, sh, field, csv_val, shopify_val, fixed) ==
    [idx |-> idx, sku |-> sh.sku, field |-> field,
     csv_value |-> csv_val, shopify_value |-> shopify_val,
     variant_id |-> sh.variant_id, product_id |-> sh.product_id,
     fixed_descriptionHtml |-> fixed]

\* Rule 1: price
price_rule(idx, cr, sh) ==
    IF notna(cr.price) /\ notna(sh.price) /\ cr.price # sh.price
    THEN <<make_row_mismatch(idx, sh, "price", cr.price, sh.price, NaN)>>
    ELSE <<>>

\* a variant of promo_rule that applies both checks to every feed
promo_rule_both(idx, cr, sh, is_clearance_file) ==
    (IF notna(cr.compareAtPrice) /\ notna(sh.compareAtPrice)
        /\ cr.compareAtPrice # sh.compareAtPrice
     THEN <<make_row_mismatch(idx, sh, "compare_at_price",
                              cr.compareAtPrice, sh.compareAtPrice, NaN)>>
     ELSE <<>>)
    \o (IF notna(sh.compareAtPrice) /\ sh.compareAtPrice # sh.price
        THEN <<make_row_mismatch(idx, sh, "sticky_sale",
                                 Word("N/A (Should be null or equal to price)"),
                                 sh.compareAtPrice, NaN)>>
        ELSE <<>>)

\* Rule 1.5: compare-at price of a clearance feed, sticky sale of another feed
promo_rule(idx, cr, sh, is_clearance_file) ==
    IF is_clearance_file
    THEN IF notna(cr.compareAtPrice) /\ notna(sh.compareAtPrice)
            /\ cr.compareAtPrice # sh.compareAtPrice
         THEN <<make_row_mismatch(idx, sh, "compare_at_price",
                                  cr.compareAtPrice, sh.compareAtPrice, NaN)>>
         ELSE <<>>
    ELSE IF notna(sh.compareAtPrice) /\ sh.compareAtPrice # sh.price
         THEN <<make_row_mismatch(idx, sh, "sticky_sale",
                                  Word("N/A (Should be null or equal to price)"),
                                  sh.compareAtPrice, NaN)>>
         ELSE <<>>

\* is_oversize
row_is_oversize(cr, sh) ==
    {"oversize", "overweight"} \cap (parse_tags(sh.tags) \cup parse_tags(cr.tags)) # {}

\* template: the platform's template, folded; blank, none, nan and null are the default
row_template(sh) ==
    LET template_raw == sh.templateSuffix
        template == IF notna(template_raw)
                    THEN (IF template_raw.s = <<>> THEN "" ELSE word_lower(template_raw.s[1]))
                    ELSE "default template"
    IN IF template \in {"none", "nan", "null", ""} THEN "default template" ELSE template

\* real_discount: the feed's prices when both are there, else the platform's
row_real_discount(cr, sh) ==
    IF notna(cr.compareAtPrice) /\ notna(cr.price)
    THEN num_gt(cr.compareAtPrice, cr.price)
    ELSE IF notna(sh.compareAtPrice) /\ notna(sh.price)
    THEN num_gt(sh.compareAtPrice, sh.price)
    ELSE FALSE

\* expected_template of one matched row
row_expected_template(cr, sh, is_clearance_file) ==
    ExpectedTemplate(row_is_oversize(cr, sh), "clearance" \in parse_tags(sh.tags),
                     row_real_discount(cr, sh), is_clearance_file)

\* the template check
template_rule(idx, cr, sh, is_clearance_file) ==
    LET template == row_template(sh)
        expected_template == row_expected_template(cr, sh, is_clearance_file)
        display_actual == IF template = "default template"
                          THEN Word("Default Template")
                          ELSE sh.templateSuffix
    IN IF template # expected_template
       THEN <<make_row_mismatch(idx, sh, "incorrect_template_suffix",
                                Word(display_expected(expected_template)),
                                display_actual, NaN)>>
       ELSE <<>>

\* ", ".join(shop_tags) if shop_tags else "None", as the words it joins: the tags
\* of the cell without repetition (a set is walked in one order within a process)
joined_tags(cell) ==
    LET words == IF cell.t = "raw"
                 THEN [i \in DOMAIN cell.s |-> word_lower(word_strip(cell.s[i]))]
                 ELSE IF cell.t = "none" THEN <<"none">> ELSE <<>>
        firsts == SelectSeq([i \in DOMAIN words |-> i],
                            LAMBDA i : \A j \in 1..(i - 1) : words[j] # words[i])
    IN IF words = <<>> THEN Word("None") ELSE Raw([k \in DOMAIN firsts |-> words[firsts[k]]])

\* the oversize tag check
oversize_rule(idx, cr, sh) ==
    LET shop_tags == parse_tags(sh.tags) IN
    IF row_is_oversize(cr, sh) /\ "oversize" \notin shop_tags /\ "overweight" \notin shop_tags
    THEN <<make_row_mismatch(idx, sh, "missing_oversize_tag",
                             Word("oversize or overweight"), joined_tags(sh.tags), NaN)>>
    ELSE <<>>

\* a variant of clearance_rule that reports a missing tag without reading the tags
clearance_rule_untagged(idx, cr, sh, is_clearance_file, parent_discount) ==
    LET shop_tags == parse_tags(sh.tags) IN
    IF ~is_clearance_file THEN <<>>
    ELSE IF notna(cr.compareAtPrice) /\ cr.price = cr.compareAtPrice
    THEN IF ~parent_discount /\ ("clearance" \in shop_tags \/ row_template(sh) = "clearance")
         THEN <<make_row_mismatch(idx, sh, "clearance_price_mismatch",
                                  Word("Regular Price (No Clearance)"),
                                  Word("Marked as Clearance"), NaN)>>
         ELSE <<>>
    ELSE <<make_row_mismatch(idx, sh, "missing_clearance_tag", Word("Clearance"),
                             IF sh.tags.t = "raw" /\ sh.tags.s # <<>> THEN sh.tags
                             ELSE Word("None"), NaN)>>

\* the clearance checks of a clearance feed
clearance_rule(idx, cr, sh, is_clearance_file, parent_discount) ==
    LET shop_tags == parse_tags(sh.tags) IN
    IF ~is_clearance_file THEN <<>>
    ELSE IF notna(cr.compareAtPrice) /\ cr.price = cr.compareAtPrice
    THEN IF ~parent_discount /\ ("clearance" \in shop_tags \/ row_template(sh) = "clearance")
         THEN <<make_row_mismatch(idx, sh, "clearance_price_mismatch",
                                  Word("Regular Price (No Clearance)"),
                                  Word("Marked as Clearance"), NaN)>>
         ELSE <<>>
    ELSE IF "clearance" \notin shop_tags
    THEN <<make_row_mismatch(idx, sh, "missing_clearance_tag", Word("Clearance"),
                             IF sh.tags.t = "raw" /\ sh.tags.s # <<>> THEN sh.tags
                             ELSE Word("None"), NaN)>>
    ELSE <<>>

\* re.search(r'<h1\b[^>]*>', ...) and the two re.sub on the tags of a description
\* (r'</h1>' matches the closing tag written without a blank only: a tag "</h1 >"
\* is not in the table and stays as it is)
H1Table ==
    <<<<"<h1>", "<h2>">>, <<"<H1>", "<h2>">>,
      <<"<h1 class=\"x\">", "<h2 class=\"x\">">>,
      <<"</h1>", "</h2>">>, <<"</H1>", "</h2>">>>>
is_h1_open(w) == w \in {"<h1>", "<H1>", "<h1 class=\"x\">"}
fix_h1(cell) == Raw([i \in DOMAIN cell.s |-> translate(H1Table, cell.s[i])])

\* Rule 4: a level-1 heading in the description
h1_rule(idx, sh) ==
    LET desc_html == sh.descriptionHtml IN
    IF desc_html.t = "raw" /\ \E i \in DOMAIN desc_html.s : is_h1_open(desc_html.s[i])
    THEN <<make_row_mismatch(idx, sh, "h1_in_description", Word("Uses H2 Tags"),
                             Word("Contains H1 Tag"), fix_h1(desc_html))>>
    ELSE <<>>

\* the body of `for idx, row in matches.iterrows()`
row_mismatches(idx, cr, sh, is_clearance_file, parent_discount) ==
    price_rule(idx, cr, sh)
    \o promo_rule(idx, cr, sh, is_clearance_file)
    \o template_rule(idx, cr, sh, is_clearance_file)
    \o oversize_rule(idx, cr, sh)
    \o clearance_rule(idx, cr, sh, is_clearance_file, parent_discount)
    \o h1_rule(idx, sh)

\* the mismatches of the rows k.. of merged
RECURSIVE mismatches_from(_, _, _, _)
mismatches_from(csv, shop, is_clearance_file, k) ==
    LET all == merged(csv, shop) IN
    IF k > Len(all) THEN <<>>
    ELSE (IF is_match(csv, shop, all[k])
          THEN row_mismatches(all[k], csv[all[k].csv], shop[all[k].shopify], is_clearance_file,
                              parent_discounts(csv, shop, all[k]))
          ELSE <<>>)
         \o mismatches_from(csv, shop, is_clearance_file, k + 1)

\* is_clearance_file = 'clearance' in filename.lower()
FileTable == <<<<"Clearance.csv", "clearance.csv">>>>
is_clearance(filename) == translate(FileTable, filename) \in {"clearance.csv"}

\* a variant of missing_record without the two fallbacks
missing_record_plain(cr) == cr

\* a record of missing_records: the columns of the feed with the fallbacks of type
\* and title.  record.get('product_type', record.get('category', '')) finds the key
\* product_type in every record (the loader adds each column a feed lacks), so it
\* yields the product type, blank or not, and never the category
missing_record(cr) ==
    LET blank(v) == isna(v) \/ str_strip(astype_str(v)) = <<>> IN
    [cr EXCEPT !.type = IF blank(cr.type) THEN cr.product_type ELSE cr.type,
              !.title = IF blank(cr.title)
                        THEN Raw(<<"P", "r", "o", "d", "u", "c", "t", " ">> \o astype_str(cr.sku))
                        ELSE cr.title]

\* what check_mismatches returns for the tables as it received them
check_mismatches(csv_in, shop_in, filename) ==
    LET csv == coerce_csv(csv_in)
        shop == coerce_shopify(shop_in)
        all == merged(csv, shop)
        missing == SelectSeq(all, LAMBDA m : is_missing(csv, shop, m))
        matches == SelectSeq(all, LAMBDA m : is_match(csv, shop, m))
    IN [csv_df |-> csv, shopify_df |-> shop,
        mismatch_df |-> mismatches_from(csv, shop, is_clearance(filename), 1),
        missing_df |-> [k \in DOMAIN missing |-> missing_record(csv[missing[k].csv])],
        matched_count |-> Len(matches)]

\* tags of check_stale_clearance: str(tags).lower().replace(' ', '').split(',')
stale_tags(cell) ==
    IF cell.t = "raw" /\ cell.s # <<>>
    THEN {word_lower(word_strip(cell.s[i])) : i \in DOMAIN cell.s}
    ELSE IF cell.t = "raw" THEN {""}
    ELSE IF cell.t = "none" THEN {"none"}
    ELSE {"nan"}

\* one record of `stale`, for the row j of the snapshot
stale_record(j, sh) ==
    [idx |-> [csv |-> 0, shopify |-> j], sku |-> sh.sku, field |-> "stale_clearance_tag",
     csv_value |-> Word("Not in Clearance file"), shopify_value |-> Word("Has Clearance tag"),
     variant_id |-> sh.variant_id, product_id |-> sh.product_id,
     fixed_descriptionHtml |-> NaN]

\* a variant of check_stale_clearance that accepts a quantity of zero
check_stale_clearance_zero(shop, csv) ==
    LET csv_skus == {sku_lower(csv[i]) : i \in DOMAIN csv}
        flagged == SelectSeq([j \in DOMAIN shop |-> j],
                       LAMBDA j :
                           /\ "clearance" \in stale_tags(shop[j].tags)
                           /\ LET inv == to_numeric(astype_str(shop[j].inventoryQuantity))
                              IN notna(inv) /\ ~num_lt(inv, Float(0))
                           /\ sku_lower(shop[j]) \notin csv_skus)
    IN [k \in DOMAIN flagged |-> stale_record(flagged[k], shop[flagged[k]])]

\* check_stale_clearance(shopify_df, csv_df)
check_stale_clearance(shop, csv) ==
    LET csv_skus == {sku_lower(csv[i]) : i \in DOMAIN csv}
        flagged == SelectSeq([j \in DOMAIN shop |-> j],
                       LAMBDA j :
                           /\ "clearance" \in stale_tags(shop[j].tags)
                           /\ LET inv == to_numeric(astype_str(shop[j].inventoryQuantity))
                              IN notna(inv) /\ num_gt(inv, Float(0))
                           /\ sku_lower(shop[j]) \notin csv_skus)
    IN [k \in DOMAIN flagged |-> stale_record(flagged[k], shop[flagged[k]])]

\* ------------------------------------------------------------ the audit run
\* a row of the feed (read with dtype=str: a text or NaN in every column)
CsvRow(sku, handle, price, compareAtPrice, tags, type, product_type, title) ==
    [sku |-> sku, handle |-> handle, price |-> price, compareAtPrice |-> compareAtPrice,
     tags |-> tags, type |-> type, product_type |-> product_type, title |-> title,
     category |-> NaN]

\* the same row of a feed that has a Category column
with_category(row, category) == [row EXCEPT !.category = category]

\* a row of the snapshot, as the fetch builds it from the platform's answer
ShopifyRow(sku, handle, price, compareAtPrice, inventoryQuantity, tags, templateSuffix, descriptionHtml, variant_id, product_id) ==
    [sku |-> sku, handle |-> handle, price |-> price, compareAtPrice |-> compareAtPrice,
     inventoryQuantity |-> inventoryQuantity, tags |-> tags,
     templateSuffix |-> templateSuffix, descriptionHtml |-> descriptionHtml,
     variant_id |-> variant_id, product_id |-> product_id]

\* mismatch_df['Error_Log'] = "" on one record
with_error_log(rec) ==
    [idx |-> rec.idx, sku |-> rec.sku, field |-> rec.field, csv_value |-> rec.csv_value,
     shopify_value |-> rec.shopify_value, variant_id |-> rec.variant_id,
     product_id |-> rec.product_id, fixed_descriptionHtml |-> rec.fixed_descriptionHtml,
     Error_Log |-> <<>>]

\* pd.concat([mismatch_df, stale_df], ignore_index=True) with the Error_Log column
audit_table(recs) == [i \in 0..(Len(recs) - 1) |-> with_error_log(recs[i + 1])]

\* the records of the working table, in the order of the table
table_records(df) == [k \in 1..Cardinality(DOMAIN df) |-> df[k - 1]]

\* "Run Audit": the engine runs on the feed and the snapshot, the stale scan runs
\* for a clearance feed, and the results go to the session
RunAudit ==
    /\ pc = "loaded"
    /\ \E r \in {check_mismatches(csv_df, shopify_df, selected_file)} :
       \E stale \in {IF is_clearance(selected_file)
                     THEN check_stale_clearance(r.shopify_df, r.csv_df)
                     ELSE <<>>} :
          /\ csv_df' = r.csv_df
          /\ shopify_df' = r.shopify_df
          /\ missing_df' = r.missing_df
          /\ stale_df' = stale
          /\ mismatch_df' = audit_table(r.mismatch_df \o stale)
          /\ missing_index' = DOMAIN r.missing_df
    /\ pc' = "audited"
    /\ df_to_create' = {}
    /\ creations' = <<>>
    /\ error_logs' = <<>>
    /\ UNCHANGED <<selected_file, df_to_fix, errors, gi, c, requests, raised, fixes, faults>>
    /\ UNCHANGED remote_vars

\* check_mismatches is given the same two tables a second time
Recheck ==
    /\ pc = "audited"
    /\ \E r \in {check_mismatches(csv_df, shopify_df, selected_file)} :
          /\ csv_df' = r.csv_df
          /\ shopify_df' = r.shopify_df
          /\ missing_df' = r.missing_df
          /\ mismatch_df' = audit_table(r.mismatch_df \o stale_df)
          /\ missing_index' = DOMAIN r.missing_df
    /\ pc' = "rechecked"
    /\ UNCHANGED <<selected_file, stale_df, df_to_fix, errors, gi, c, requests, raised,
                   fixes, faults>>
    /\ UNCHANGED <<remote_vars, df_to_create, creations, error_logs>>

NextAudit == RunAudit \/ Recheck

\* a session before its first fix action, with the tables of an audit run loaded
Loaded(csv, shop, file) ==
    /\ csv_df = csv
    /\ shopify_df = shop
    /\ selected_file = file
    /\ missing_df = <<>>
    /\ stale_df = <<>>
    /\ NoFetch
    /\ mismatch_df = EmptyMap
    /\ pc = "loaded"
    /\ df_to_fix = <<>>
    /\ errors = EmptyMap
    /\ gi = 1
    /\ c = 0
    /\ requests = <<>>
    /\ raised = FALSE
    /\ fixes = 0
    /\ faults = 0

FileNames == {"Clearance.csv", "products.csv"}

\* ---- the tables of the rule engine: one matched row "a" whose prices, tags,
\* template and description vary, with or without a second row of the feed
RulePrices == {NaN, Raw(<<"1", "0">>), Raw(<<"2", "0">>)}
RuleCsvTags == {NaN, Raw(<<"Oversize">>)}
RuleShopifyTags == {Raw(<<>>), Raw(<<"Clearance">>), Raw(<<"Clearance", " overweight">>)}
RuleTemplates == {PyNone, Word("clearance"), Word("heavy-products")}
RuleDescriptions == {PyNone, Raw(<<"<p>", "<h1 class=\"x\">", "T", "</h1>">>)}

\* a second row "b" of the feed, with the handle, the prices and, when matched,
\* the snapshot row given
Sibling(handle, price, compareAtPrice, matched) ==
    [csv |-> <<CsvRow(Raw(<<"b">>), Raw(<<handle>>), price, compareAtPrice, NaN,
                      NaN, NaN, Raw(<<"T">>))>>,
     shopify |-> IF matched
                 THEN <<ShopifyRow(Raw(<<"b">>), Raw(<<handle>>), price, compareAtPrice,
                                   Raw(<<"5">>), Raw(<<"Clearance">>), Word("clearance"),
                                   PyNone, 12, 1)>>
                 ELSE <<>>]

Siblings ==
    {[csv |-> <<>>, shopify |-> <<>>],
     Sibling("p", Raw(<<"1", "0">>), Raw(<<"2", "0">>), TRUE),
     Sibling("p", Raw(<<"1", "0">>), Raw(<<"2", "0">>), FALSE),
     Sibling("q", Raw(<<"1", "0">>), Raw(<<"2", "0">>), TRUE),
     Sibling("p", Raw(<<"2", "0">>), Raw(<<"2", "0">>), TRUE)}

InitRules ==
    \E price_csv \in RulePrices : \E compare_csv \in RulePrices :
    \E tags_csv \in RuleCsvTags :
    \E price_shopify \in RulePrices : \E compare_shopify \in RulePrices :
    \E tags_shopify \in RuleShopifyTags : \E template \in RuleTemplates :
    \E desc \in RuleDescriptions : \E sib \in Siblings : \E file \in FileNames :
        Loaded(<<CsvRow(Raw(<<"A">>), Raw(<<"p">>), price_csv, compare_csv, tags_csv,
                        NaN, NaN, Raw(<<"T">>))>> \o sib.csv,
               <<ShopifyRow(Raw(<<"a">>), Raw(<<"p">>), price_shopify, compare_shopify,
                            Raw(<<"5">>), tags_shopify, template, desc, 11, 1)>>
               \o sib.shopify,
               file)

SpecRules == InitRules /\ [][NextAudit]_vars

\* ---- the tables of the coercion: one matched row "a" whose four prices are texts
\* of every shape the columns can hold, with or without an unmatched row "b"
CoerceCsvPrices ==
    {NaN, Raw(<<>>), Raw(<<"1", "0">>), Raw(<<"1", "0", ".", "5">>),
     Raw(<<"$", "1", ",", "0", "0", "0">>), Raw(<<"a", "b", "c">>),
     Raw(<<"1", "e", "2">>), Raw(<<"i", "n", "f">>), Raw(<<"-", "5">>),
     Raw(<<" ", "1", "0", " ">>)}
CoerceShopifyPrices ==
    {PyNone, Raw(<<"1", "0">>), Raw(<<"1", "0", ".", "5", "0">>),
     Raw(<<"1", "0", "0", ".", "0">>), Raw(<<"a", "b", "c">>)}
CoerceCsvCompares ==
    {NaN, Raw(<<"2", "0">>), Raw(<<"a", "b", "c">>), Raw(<<"1", "e", "2">>)}
CoerceShopifyCompares ==
    {PyNone, Raw(<<"2", "0">>), Raw(<<"1", "0", "0", ".", "0", "0">>), Raw(<<"a", "b", "c">>)}
CoerceExtras ==
    {<<>>,
     <<CsvRow(Raw(<<"b">>), Raw(<<"q">>), Raw(<<"7", ".", "2", "5">>), NaN, NaN,
              NaN, NaN, Raw(<<"T">>))>>}

InitCoerce ==
    \E price_csv \in CoerceCsvPrices : \E compare_csv \in CoerceCsvCompares :
    \E price_shopify \in CoerceShopifyPrices :
    \E compare_shopify \in CoerceShopifyCompares :
    \E extra \in CoerceExtras : \E file \in FileNames :
        Loaded(<<CsvRow(Raw(<<"A">>), Raw(<<"p">>), price_csv, compare_csv, NaN,
                        NaN, NaN, Raw(<<"T">>))>> \o extra,
               <<ShopifyRow(Raw(<<"a">>), Raw(<<"p">>), price_shopify, compare_shopify,
                            Raw(<<"5">>), Raw(<<>>), PyNone, PyNone, 11, 1)>>,
               file)

SpecCoerce == InitCoerce /\ [][NextAudit]_vars

\* ---- the tables of the join: a feed of one or two rows whose keys may be absent,
\* repeated or written in another case, against a snapshot of zero to two rows
JoinCsvSkus == {NaN, Raw(<<"A">>), Raw(<<"a", " ">>)}
JoinTypes == {NaN, Raw(<<" ">>), Raw(<<"T">>)}
JoinProductTypes == {NaN, Raw(<<"U">>)}
JoinTitles == {NaN, Raw(<<"T">>)}
JoinSecondCsv ==
    {<<>>} \cup
    {<<CsvRow(sku, Raw(<<"p">>), Raw(<<"1", "0">>), NaN, NaN, NaN, NaN, Raw(<<" ">>))>> :
        sku \in {NaN, Raw(<<"a">>), Raw(<<"b">>)}}
JoinShopifySkus == {PyNone, Raw(<<"a">>), Raw(<<"c">>)}
JoinShopifyTags == {Raw(<<>>), Raw(<<"Clearance">>)}
JoinQuantities == {PyNone, Raw(<<"0">>), Raw(<<"5">>), Raw(<<"-", "1">>)}
JoinSecondShopify ==
    {<<>>} \cup
    {<<ShopifyRow(sku, Raw(<<"p">>), Raw(<<"1", "0">>), PyNone, Raw(<<"5">>),
                  Raw(<<"x", " Clearance">>), PyNone, PyNone, 12, 1)>> :
        sku \in {Raw(<<"A">>), Raw(<<"c">>)}}
JoinFirstShopify ==
    {<<>>} \cup
    {<<ShopifyRow(sku, Raw(<<"p">>), Raw(<<"1", "0">>), PyNone, qty, tags, PyNone,
                  PyNone, 11, 1)>> :
        sku \in JoinShopifySkus, qty \in JoinQuantities, tags \in JoinShopifyTags}

InitJoin ==
    \E sku \in JoinCsvSkus : \E type \in JoinTypes :
    \E product_type \in JoinProductTypes : \E title \in JoinTitles :
    \E second \in JoinSecondCsv :
    \E first_shopify \in JoinFirstShopify : \E second_shopify \in JoinSecondShopify :
        Loaded(<<CsvRow(sku, Raw(<<"p">>), Raw(<<"1", "0">>), NaN, NaN,
                        type, product_type, title)>> \o second,
               first_shopify \o second_shopify,
               "Clearance.csv")

SpecJoin == InitJoin /\ [][NextAudit]_vars

\* ---- the tables of the missing products: a feed row "A" without a counterpart,
\* whose type, product type, category, title and prices vary
MissingTypes == {NaN, Raw(<<" ">>), Raw(<<"T">>)}
MissingProductTypes == {NaN, Raw(<<" ">>), Raw(<<"U">>)}
MissingCategories == {NaN, Raw(<<"C">>)}
MissingTitles == {NaN, Raw(<<"T">>)}
MissingPrices ==
    {NaN, Raw(<<"1", "0">>), Raw(<<"1", "0", ".", "5">>),
     Raw(<<"$", "1", ",", "0", "0", "0">>), Raw(<<"a", "b", "c">>)}
MissingCompares == {NaN, Raw(<<"2", "0">>), Raw(<<"a", "b", "c">>)}
MissingSnapshots ==
    {<<>>,
     <<ShopifyRow(Raw(<<"c">>), Raw(<<"p">>), Raw(<<"1", "0">>), PyNone, Raw(<<"5">>),
                  Raw(<<>>), PyNone, PyNone, 11, 1)>>}

InitMissing ==
    \E type \in MissingTypes : \E product_type \in MissingProductTypes :
    \E category \in MissingCategories : \E title \in MissingTitles :
    \E price \in MissingPrices : \E compare \in MissingCompares :
    \E shop \in MissingSnapshots : \E file \in FileNames :
        Loaded(<<with_category(CsvRow(Raw(<<"A">>), Raw(<<"p">>), price, compare, NaN,
                                      type, product_type, title), category)>>,
               shop, file)

SpecMissing == InitMissing /\ [][NextAudit]_vars

\* ---- the tables of the heading rule: one matched row whose description, tags and
\* template vary
HeadingDescriptions ==
    {PyNone, Raw(<<>>),
     Raw(<<"<p>", "T", "</p>">>),
     Raw(<<"<h1>", "T", "</h1>">>),
     Raw(<<"<H1>", "T", "</H1>">>),
     Raw(<<"<p>", "<h1 class=\"x\">", "T", "</h1>", "<h1>", "U", "</h1>">>),
     Raw(<<"T", "</h1>">>),
     Raw(<<"<h1>", "T", "</h1 >">>)}

InitHeading ==
    \E desc \in HeadingDescriptions : \E tags \in RuleShopifyTags :
    \E template \in RuleTemplates : \E file \in FileNames :
        Loaded(<<CsvRow(Raw(<<"A">>), Raw(<<"p">>), Raw(<<"1", "0">>), NaN, NaN,
                        NaN, NaN, Raw(<<"T">>))>>,
               <<ShopifyRow(Raw(<<"a">>), Raw(<<"p">>), Raw(<<"1", "0">>), PyNone,
                            Raw(<<"5">>), tags, template, desc, 11, 1)>>,
               file)

SpecHeading == InitHeading /\ [][NextAudit]_vars

\* ------------------------------------------------------------ properties
IsPrice(r) == r.api = "productVariantsBulkUpdate"
IsBatch(r) == r.api = "batchUpdate"

\* the field of a userError reads ["variants", <integer>, ...]
Parseable(e) ==
    /\ ~e.field_null
    /\ Len(e.field) >= 2
    /\ e.field[1] = Str("variants")
    /\ e.field[2].t = "num"

\* ... and the integer is a position of the submitted list
InRange(e, r) == Parseable(e) /\ e.field[2].n \in 0..(Len(r.rows) - 1)

\* the userErrors the answer to r holds under the alias a
ErrorsUnder(r, a) ==
    LET hit == SelectSeq(r.resp.data, LAMBDA res : res.alias = a)
    IN IF hit = <<>> THEN <<>> ELSE hit[1].userErrors

\* the answer to r reports a failure for the row x
ReportedFor(r, x) ==
    IF IsPrice(r)
    THEN \E j \in DOMAIN r.resp.userErrors :
            LET e == r.resp.userErrors[j]
            IN ~Parseable(e) \/ (InRange(e, r) /\ r.rows[e.field[2].n + 1] = x)
    ELSE \E j \in DOMAIN r.resp.data :
            LET res == r.resp.data[j]
            IN /\ res.userErrors # <<>>
               /\ res.alias.i + 1 \in DOMAIN r.rows
               /\ r.rows[res.alias.i + 1] = x

\* C1: when the answer for a price group carries one validation error whose field
\* path is ["variants", k, ...] with k a position of the submitted list, the
\* returned error map holds the row submitted at position k with that error's
\* message and no other row of the group.
C1_RowAttribution ==
    AtReturn =>
        \A k \in DOMAIN requests :
            LET r == requests[k] IN
            (IsPrice(r) /\ ~r.resp.raise /\ Len(r.resp.userErrors) = 1
             /\ InRange(r.resp.userErrors[1], r)) =>
                LET e == r.resp.userErrors[1]
                    hit == r.rows[e.field[2].n + 1]
                IN /\ hit \in DOMAIN ReturnedErrors
                   /\ ReturnedErrors[hit] = <<e.message>>
                   /\ \A x \in Range(r.rows) : x # hit => x \notin DOMAIN ReturnedErrors

\* three rows of one product were submitted and the remote rejected position 1
C1_Witness ==
    /\ AtReturn
    /\ \E k \in DOMAIN requests :
          LET r == requests[k] IN
          /\ IsPrice(r) /\ ~r.resp.raise /\ Len(r.rows) = 3
          /\ Len(r.resp.userErrors) = 1
          /\ InRange(r.resp.userErrors[1], r)
          /\ r.resp.userErrors[1].field[2].n = 1

\* C2: a validation error of a price group whose field path cannot be parsed as
\* ["variants", <integer position>, ...] is attributed to every row of the group:
\* each row is in the returned error map with a message that contains the remote
\* message.
C2_UnparsedToAll ==
    AtReturn =>
        \A k \in DOMAIN requests :
            LET r == requests[k] IN
            (IsPrice(r) /\ ~r.resp.raise) =>
                \A j \in DOMAIN r.resp.userErrors :
                    LET e == r.resp.userErrors[j] IN
                    ~Parseable(e) =>
                        \A x \in Range(r.rows) :
                            /\ x \in DOMAIN ReturnedErrors
                            /\ Contains(ReturnedErrors[x], e.message)

\* C3: when the call for a price group or an attribute chunk raises, the dispatcher
\* does not raise, and every row of that group or chunk is in the returned error
\* map with the transport failure's message.
C3_TransportFailure ==
    /\ ~raised
    /\ AtReturn =>
          \A k \in DOMAIN requests :
              LET r == requests[k] IN
              r.resp.raise =>
                  \A x \in Range(r.rows) :
                      /\ x \in DOMAIN ReturnedErrors
                      /\ ReturnedErrors[x] = <<r.resp.exc>>

\* the call of a price group and the call of a chunk both raised
C3_Witness ==
    /\ AtReturn
    /\ \E k \in DOMAIN requests : IsPrice(requests[k]) /\ requests[k].resp.raise
    /\ \E k \in DOMAIN requests : IsBatch(requests[k]) /\ requests[k].resp.raise

\* the rows lo..hi of the submitted attribute rows
AttrBlock(lo, hi) ==
    LET attr == SelectSeq(df_to_fix,
                          LAMBDA x : mismatch_df[x].field \notin (PriceFields \cup {ManualField}))
    IN SubSeq(attr, lo, Min(hi, Len(attr)))

NumAttr == Len(AttrBlock(1, Len(df_to_fix)))

NumChunks == (NumAttr + chunk_size - 1) \div chunk_size

\* the product ids of the submitted price rows
PriceProducts ==
    {mismatch_df[x].product_id : x \in {y \in Range(df_to_fix) : mismatch_df[y].field \in PriceFields}}

\* C4: a transport failure aborts only its own group: when the dispatcher returns,
\* one request was issued for every price group and then for every attribute
\* chunk, in sequence, and a row is in the error map only if its own request
\* raised or reported a failure for it.
C4_FailureIsLocal ==
    AtReturn =>
        /\ Len(requests) = Cardinality(PriceProducts) + NumChunks
        /\ \A k \in DOMAIN requests :
              /\ k <= Cardinality(PriceProducts) =>
                    /\ IsPrice(requests[k])
                    /\ requests[k].productId \in PriceProducts
                    /\ \A j \in 1..(k - 1) : requests[j].productId < requests[k].productId
              /\ k > Cardinality(PriceProducts) =>
                    /\ IsBatch(requests[k])
                    /\ requests[k].rows =
                          AttrBlock((k - Cardinality(PriceProducts) - 1) * chunk_size + 1,
                                    (k - Cardinality(PriceProducts)) * chunk_size)
        /\ \A k \in DOMAIN requests :
              \A x \in Range(requests[k].rows) :
                  x \in DOMAIN ReturnedErrors =>
                      requests[k].resp.raise \/ ReportedFor(requests[k], x)

\* the first call raised, a later call was issued and answered without a failure,
\* and its rows are not in the error map
C4_Witness ==
    /\ AtReturn
    /\ Len(requests) >= 2
    /\ requests[1].resp.raise
    /\ ~requests[2].resp.raise
    /\ Cost(requests[2].resp) = 0
    /\ Range(requests[2].rows) \cap DOMAIN ReturnedErrors = {}

\* the rows of the working table that are stale_clearance_tag records
StaleRows == {x \in DOMAIN mismatch_df : mismatch_df[x].field = ManualField}

\* no request issued so far holds a stale row or a unit for a stale row's product
\* or variant, and the returned map holds "Manual review required" for every
\* stale row submitted
C5_State ==
    /\ \A k \in DOMAIN requests :
          /\ Range(requests[k].rows) \cap StaleRows = {}
          /\ Range(requests[k].map) \cap StaleRows = {}
          /\ \A u \in DOMAIN requests[k].units : \A x \in StaleRows :
                requests[k].units[u].id \notin {mismatch_df[x].variant_id, mismatch_df[x].product_id}
    /\ AtReturn =>
          \A x \in Range(df_to_fix) \cap StaleRows :
              x \in DOMAIN ReturnedErrors /\ ReturnedErrors[x] = <<ManualMessage>>

\* a stale row of the working table is still there, and still stale, after a step
C5_Step ==
    \A x \in StaleRows :
        x \in DOMAIN mismatch_df' /\ mismatch_df'[x].field = ManualField

\* C5: a stale_clearance_tag record is never auto-corrected: whatever rows are
\* submitted, no remote request contains such a row, the returned error map holds
\* "Manual review required" for each one submitted, and no fix action removes one
\* from the working table.
C5_StaleIsManual == [](C5_State) /\ [][C5_Step]_vars

\* a fix action that was given a stale row among others has finished: another row
\* was removed, the stale row is there with the manual-review message
C5_Witness ==
    /\ pc = "idle"
    /\ fixes >= 1
    /\ 0 \notin DOMAIN mismatch_df
    /\ \E x \in StaleRows : mismatch_df[x].Error_Log = <<ManualMessage>>

\* C6: a row leaves the working table only in a fix action that submitted it and
\* whose returned error map does not contain it; every submitted row that is in
\* the returned error map stays in the table with Error_Log set to the message
\* returned for it.
C6_Step ==
    /\ \A x \in DOMAIN mismatch_df :
          x \notin DOMAIN mismatch_df' =>
              /\ AtReturn
              /\ x \in Range(df_to_fix)
              /\ x \notin DOMAIN ReturnedErrors
    /\ (AtReturn /\ pc' = "idle") =>
          \A x \in Range(df_to_fix) \cap DOMAIN ReturnedErrors :
              /\ x \in DOMAIN mismatch_df'
              /\ mismatch_df'[x] = [mismatch_df[x] EXCEPT !.Error_Log = ReturnedErrors[x]]

C6_RemovedOnlyOnSuccess == [][C6_Step]_vars

\* a fix action has finished that removed row 0 and kept a row with the message
\* the remote gave for it
C6_Witness ==
    /\ pc = "idle"
    /\ fixes >= 1
    /\ 0 \notin DOMAIN mismatch_df
    /\ \E x \in DOMAIN mismatch_df :
          /\ mismatch_df[x].field # ManualField
          /\ mismatch_df[x].Error_Log = <<Msg(1)>>

\* the submitted price rows
SubmittedPrice == {x \in Range(df_to_fix) : mismatch_df[x].field \in PriceFields}

\* the places (request, list position) mapped back to the row x
PlacesOf(x) ==
    {p \in UNION {{<<k, pos>> : pos \in DOMAIN requests[k].map} :
                    k \in {j \in DOMAIN requests : IsPrice(requests[j])}} :
        requests[p[1]].map[p[2]] = x}

\* C7: for the submitted price rows, exactly one composite price request is issued
\* per distinct product id among them, and every such row is exactly one unit of
\* exactly one of these requests, at the list position mapped back to it.
C7_OneRequestPerProduct ==
    AtReturn =>
        /\ \A k \in DOMAIN requests :
              IsPrice(requests[k]) =>
                  /\ requests[k].productId \in PriceProducts
                  /\ Len(requests[k].units) = Len(requests[k].rows)
                  /\ DOMAIN requests[k].map = 0..(Len(requests[k].units) - 1)
        /\ \A p \in PriceProducts :
              Cardinality({k \in DOMAIN requests :
                              IsPrice(requests[k]) /\ requests[k].productId = p}) = 1
        /\ \A x \in SubmittedPrice :
              /\ Cardinality(PlacesOf(x)) = 1
              /\ \A p \in PlacesOf(x) :
                    LET r == requests[p[1]]
                        unit == r.units[p[2] + 1]
                        row == mismatch_df[x]
                    IN /\ r.productId = row.product_id
                       /\ unit.id = row.variant_id
                       /\ unit.key = (IF row.field = "price" THEN "price" ELSE "compareAtPrice")
                       /\ unit.value = (IF row.field = "sticky_sale" THEN "null"
                                        ELSE PyStr(row.csv_value))

\* rows of two products were submitted, two of them of the same product
C7_Witness ==
    /\ AtReturn
    /\ Cardinality(PriceProducts) = 2
    /\ \E k \in DOMAIN requests : IsPrice(requests[k]) /\ Len(requests[k].units) = 2

\* the composite attribute requests in the order they were issued
BatchRequests == SelectSeq(requests, LAMBDA r : IsBatch(r))

\* the messages the remote can have reported
RemoteMessages == {Msg(k) : k \in 1..MaxFaults}

\* C8: the attribute rows are split in submission order into consecutive chunks of
\* at most 50 rows with exactly one composite request per chunk; within a chunk
\* every row owns an alias no other row owns, every sub-operation is issued under
\* the alias of the row it corrects, and an error reported under an alias is
\* recorded against the row that owns the alias and against no other row.
C8_ChunksAndAliases ==
    AtReturn =>
        LET B == BatchRequests IN
        /\ Len(B) = NumChunks
        /\ \A j \in DOMAIN B :
              /\ Len(B[j].rows) <= chunk_size
              /\ B[j].rows = AttrBlock((j - 1) * chunk_size + 1, j * chunk_size)
              /\ Cardinality(DOMAIN B[j].map) = Len(B[j].rows)
              /\ \A i \in DOMAIN B[j].rows : B[j].map[Alias(i - 1, "")] = B[j].rows[i]
              /\ \A a, b \in DOMAIN B[j].map : a # b => B[j].map[a] # B[j].map[b]
              /\ \A u \in DOMAIN B[j].units :
                    LET unit == B[j].units[u]
                        own == [i |-> unit.alias.i, part |-> ""]
                    IN /\ own \in DOMAIN B[j].map
                       /\ unit.id = mismatch_df[B[j].map[own]].product_id
        /\ \A x \in Range(AttrBlock(1, NumAttr)) : \A m \in RemoteMessages :
              Contains(Get(ReturnedErrors, x, <<>>), m)
              <=> \E j \in DOMAIN B :
                     /\ ~B[j].resp.raise
                     /\ \E d \in DOMAIN B[j].resp.data :
                           LET res == B[j].resp.data[d]
                               own == [i |-> res.alias.i, part |-> ""]
                           IN /\ m \in Range(res.userErrors)
                              /\ own \in DOMAIN B[j].map
                              /\ B[j].map[own] = x

\* two chunks were issued, the first one full; the remote reported an error under
\* the first alias of the second chunk: the first row of the second chunk is in the
\* map, the first row of the first chunk is not
C8_Witness ==
    /\ AtReturn
    /\ Len(BatchRequests) = 2
    /\ Len(BatchRequests[1].rows) = chunk_size
    /\ ~BatchRequests[1].resp.raise
    /\ ~BatchRequests[2].resp.raise
    /\ \E d \in DOMAIN BatchRequests[2].resp.data :
          /\ BatchRequests[2].resp.data[d].alias.i = 0
          /\ BatchRequests[2].resp.data[d].userErrors # <<>>
    /\ BatchRequests[2].rows[1] \in DOMAIN ReturnedErrors
    /\ BatchRequests[1].rows[1] \notin DOMAIN ReturnedErrors

\* the row at position i of request r is a clearance_price_mismatch row and both
\* of its sub-operations reported errors
BothFailed(r, i) ==
    /\ IsBatch(r)
    /\ ~r.resp.raise
    /\ mismatch_df[r.rows[i]].field = "clearance_price_mismatch"
    /\ ErrorsUnder(r, [i |-> i - 1, part |-> "_tag"]) # <<>>
    /\ ErrorsUnder(r, [i |-> i - 1, part |-> "_suffix"]) # <<>>

\* C9: when the tag removal and the template clear of a clearance_price_mismatch
\* row both report errors, the row has one entry of the error map and the entry
\* contains the messages of both: the second is added to the first.
C9_BothMessages ==
    AtReturn =>
        \A k \in DOMAIN requests : \A i \in DOMAIN requests[k].rows :
            BothFailed(requests[k], i) =>
                LET r == requests[k]
                    x == r.rows[i]
                IN /\ x \in DOMAIN ReturnedErrors
                   /\ \A m \in Range(ErrorsUnder(r, [i |-> i - 1, part |-> "_tag"]))
                              \cup Range(ErrorsUnder(r, [i |-> i - 1, part |-> "_suffix"])) :
                         Contains(ReturnedErrors[x], m)

\* both sub-operations of a clearance_price_mismatch row reported errors
C9_Witness ==
    /\ AtReturn
    /\ \E k \in DOMAIN requests : \E i \in DOMAIN requests[k].rows :
          BothFailed(requests[k], i)

\* C10: for an incorrect_template_suffix record of the rule engine, the update the
\* dispatcher issues sets the template of the product to the expected template,
\* and to the empty value when the expected template is the default template.
C10_TemplateSet ==
    \A k \in DOMAIN requests : \A u \in DOMAIN requests[k].units :
        LET r == requests[k] IN
        IsBatch(r) =>
            LET unit == r.units[u]
                row == mismatch_df[r.rows[unit.alias.i + 1]]
            IN row.field = "incorrect_template_suffix" =>
                  \A e \in ExpectedTemplates(TRUE) \cup ExpectedTemplates(FALSE) :
                      row.csv_value = Str(display_expected(e)) =>
                          /\ unit.op = "templateSuffix"
                          /\ unit.arg = (IF e = "default template" THEN "" ELSE e)

\* ------------------------------------------------------------ properties of the engine
\* the engine has run on the tables
Audited == pc \in {"audited", "rechecked"}

\* the pairs (feed row, snapshot row) the join matches: both keys are there and
\* fold to the same text
MatchedPairs ==
    {m \in [csv : DOMAIN csv_df, shopify : DOMAIN shopify_df] :
        /\ notna(csv_df[m.csv].sku)
        /\ notna(shopify_df[m.shopify].sku)
        /\ sku_lower(csv_df[m.csv]) = sku_lower(shopify_df[m.shopify])}

\* the discrepancies of the working table that the engine made for the row m
RecordsOf(m) ==
    {k \in DOMAIN mismatch_df :
        mismatch_df[k].idx = m /\ mismatch_df[k].field # ManualField}

\* the kinds of those discrepancies
KindsOf(m) == {mismatch_df[k].field : k \in RecordsOf(m)}

\* how many of them are of one of the kinds
CountOf(m, kinds) == Cardinality({k \in RecordsOf(m) : mismatch_df[k].field \in kinds})

\* C11: for every matched row the engine makes at most one price discrepancy and
\* at most one promotional-price discrepancy, which is compare_at_price or
\* sticky_sale and never both.
C11_AtMostOnePrice ==
    Audited =>
        \A m \in MatchedPairs :
            /\ CountOf(m, {"price"}) <= 1
            /\ CountOf(m, {"compare_at_price", "sticky_sale"}) <= 1

\* a matched row has a price and a compare_at_price discrepancy
C11_Witness ==
    /\ Audited
    /\ \E m \in MatchedPairs : {"price", "compare_at_price"} \subseteq KindsOf(m)

\* the feed row and the snapshot row of a matched pair
FeedRow(m) == csv_df[m.csv]
PlatformRow(m) == shopify_df[m.shopify]

\* the records of one kind of a matched pair
RecordsOfKind(m, kind) == {k \in RecordsOf(m) : mismatch_df[k].field = kind}

\* the three inputs of the template priority, read from the two rows
OversizeTagged(m) ==
    \E t \in {"oversize", "overweight"} :
        t \in parse_tags(PlatformRow(m).tags) \/ t \in parse_tags(FeedRow(m).tags)
ClearanceTagged(m) == "clearance" \in parse_tags(PlatformRow(m).tags)
RealDiscount(m) ==
    LET feed == FeedRow(m)
        plat == PlatformRow(m)
    IN IF notna(feed.compareAtPrice) /\ notna(feed.price)
       THEN num_val(feed.compareAtPrice) > num_val(feed.price)
       ELSE /\ notna(plat.compareAtPrice) /\ notna(plat.price)
            /\ num_val(plat.compareAtPrice) > num_val(plat.price)

\* the first rule that applies, in the order of the claim
PriorityTemplate(m) ==
    CASE OversizeTagged(m) -> "heavy-products"
      [] ~OversizeTagged(m) /\ ClearanceTagged(m) /\ RealDiscount(m) -> "clearance"
      [] ~OversizeTagged(m) /\ ~(ClearanceTagged(m) /\ RealDiscount(m))
         /\ is_clearance(selected_file) /\ RealDiscount(m) -> "clearance"
      [] OTHER -> "default template"

\* C12: for every matched row the template the audit expects is the one of the first
\* rule that applies (oversize or overweight tag on either side: heavy-products; else
\* platform clearance tag with a real discount: clearance; else clearance feed with a
\* real discount: clearance; else default): the row has an incorrect_template_suffix
\* record exactly when the platform's template differs from it, and the record names it
C12_TemplatePriority ==
    Audited => \A m \in MatchedPairs :
        LET expected == PriorityTemplate(m)
            shown == IF expected = "default template" THEN "Default Template" ELSE expected
            recs == RecordsOfKind(m, "incorrect_template_suffix")
        IN IF row_template(PlatformRow(m)) = expected
           THEN recs = {}
           ELSE /\ Cardinality(recs) = 1
                /\ \A k \in recs : mismatch_df[k].csv_value = Word(shown)

\* an oversize row with a clearance tag, a discount and the clearance template is
\* told to use heavy-products
C12_Witness ==
    /\ Audited
    /\ \E m \in MatchedPairs :
        /\ OversizeTagged(m) /\ ClearanceTagged(m) /\ RealDiscount(m)
        /\ row_template(PlatformRow(m)) = "clearance"
        /\ \E k \in RecordsOfKind(m, "incorrect_template_suffix") :
               mismatch_df[k].csv_value = Word("heavy-products")

\* the records of the engine in the working table, as (key, kind, source value,
\* platform value)
EngineTuples(df) ==
    {<<df[k].sku, df[k].field, df[k].csv_value, df[k].shopify_value>> :
        k \in {x \in DOMAIN df : df[x].field # ManualField}}

\* C13: a second run of check_mismatches on the two tables the first run received
\* yields the same set of discrepancies, as (key, kind, source value, platform value),
\* and the same set of missing products
C13_Step ==
    (pc = "audited" /\ pc' = "rechecked") =>
        /\ EngineTuples(mismatch_df') = EngineTuples(mismatch_df)
        /\ Range(missing_df') = Range(missing_df)
C13_Idempotent == [][C13_Step]_vars

\* a second run has reported a price with a fraction and a missing product again
C13_Witness ==
    /\ pc = "rechecked"
    /\ missing_df # <<>>
    /\ \E k \in DOMAIN mismatch_df :
        /\ mismatch_df[k].field = "price"
        /\ mismatch_df[k].csv_value = Float(1050)

\* a discount on a feed row: its price is strictly below its list price
FeedDiscount(m) ==
    /\ notna(FeedRow(m).price) /\ notna(FeedRow(m).compareAtPrice)
    /\ num_val(FeedRow(m).price) < num_val(FeedRow(m).compareAtPrice)

\* some matched row of the group of m (the rows with its handle) has a discount
GroupDiscount(m) ==
    \E n \in MatchedPairs : FeedRow(n).handle = FeedRow(m).handle /\ FeedDiscount(n)

\* the feed's list price is there and equals the feed's price
FeedAtListPrice(m) ==
    /\ notna(FeedRow(m).price) /\ notna(FeedRow(m).compareAtPrice)
    /\ num_val(FeedRow(m).price) = num_val(FeedRow(m).compareAtPrice)

C15_MissingTagOnlyOnDiscount ==
    (Audited /\ is_clearance(selected_file)) =>
        \A m \in MatchedPairs :
            (RecordsOfKind(m, "missing_clearance_tag") # {})
            => (FeedDiscount(m) /\ ~ClearanceTagged(m))

\* the rows of the join of the two tables, and the keys of a row on its two sides
JoinedRows == Range(merged(csv_df, shopify_df))
SourceKey(r) == IF r.csv = 0 THEN NaN ELSE csv_df[r.csv].sku
PlatformKey(r) == IF r.shopify = 0 THEN NaN ELSE shopify_df[r.shopify].sku

\* the three classes of a joined row
Matched(r) == notna(SourceKey(r)) /\ notna(PlatformKey(r))
MissingDownstream(r) == notna(SourceKey(r)) /\ isna(PlatformKey(r))
PlatformOnly(r) == isna(SourceKey(r)) /\ notna(PlatformKey(r))
ExactlyOneClass(r) ==
    Cardinality({x \in {"matched", "missing", "platform"} :
        \/ x = "matched" /\ Matched(r)
        \/ x = "missing" /\ MissingDownstream(r)
        \/ x = "platform" /\ PlatformOnly(r)}) = 1

\* the snapshot rows with the normalized key of the feed row i
Counterparts(i) ==
    {j \in DOMAIN shopify_df : sku_lower(shopify_df[j]) = sku_lower(csv_df[i])}

\* the missing-products records and the feed rows that carry the key text of row i
MissingFor(i) == {k \in DOMAIN missing_df : missing_df[k].sku = csv_df[i].sku}
SameKeyText(i) == {x \in DOMAIN csv_df : csv_df[x].sku = csv_df[i].sku}

\* the records of the engine are those of matched rows, and a feed row without a
\* counterpart has its one missing-products record and no record of the engine
OutputsFollowClasses(rows) ==
    /\ \A k \in DOMAIN mismatch_df :
           mismatch_df[k].field # ManualField => mismatch_df[k].idx \in MatchedPairs
    /\ \A i \in rows :
           IF Counterparts(i) = {}
           THEN /\ Cardinality(MissingFor(i)) = Cardinality(SameKeyText(i))
                /\ \A k \in DOMAIN mismatch_df :
                       mismatch_df[k].field # ManualField => mismatch_df[k].idx.csv # i
           ELSE MissingFor(i) = {}

\* C16 as stated: every joined row is exactly one of matched, missing-downstream and
\* platform-only; a feed row whose normalized key has no counterpart in the snapshot
\* has one missing-products record and no discrepancy record; every discrepancy
\* record of check_mismatches belongs to a matched row
C16_EveryRowClassified ==
    Audited =>
        /\ \A r \in JoinedRows : ExactlyOneClass(r)
        /\ OutputsFollowClasses(DOMAIN csv_df)

\* C16, amended: the same for the joined rows and the feed rows whose keys are there
C16_KeyedRowsClassified ==
    Audited =>
        /\ \A r \in JoinedRows :
               (/\ r.csv # 0 => notna(SourceKey(r))
                /\ r.shopify # 0 => notna(PlatformKey(r))) => ExactlyOneClass(r)
        /\ OutputsFollowClasses({i \in DOMAIN csv_df : notna(csv_df[i].sku)})

\* a feed row without a counterpart is in the missing products beside a matched row
\* and a row of the snapshot alone
C16_Witness ==
    /\ Audited
    /\ \E r1, r2, r3 \in JoinedRows :
        /\ Matched(r1) /\ MissingDownstream(r2) /\ PlatformOnly(r3)
        /\ MissingFor(r2.csv) # {}

\* the stale flags of the snapshot row j
StaleFlagsOf(j) ==
    {k \in DOMAIN stale_df :
        stale_df[k].idx.shopify = j /\ stale_df[k].field = "stale_clearance_tag"}

\* the snapshot row j carries the clearance tag, has a quantity above zero and a
\* normalized key that no row of the feed has
StaleRow(j) ==
    /\ "clearance" \in parse_tags(shopify_df[j].tags)
    /\ shopify_df[j].inventoryQuantity.t = "float"
    /\ shopify_df[j].inventoryQuantity.n > 0
    /\ \A i \in DOMAIN csv_df : sku_lower(csv_df[i]) # sku_lower(shopify_df[j])

\* C17: check_stale_clearance yields exactly one stale_clearance_tag flag for each
\* snapshot row that carries the clearance tag, has a strictly positive quantity
\* and a normalized key absent from the feed, and nothing for any other row
C17_StaleFlags ==
    Audited =>
        /\ \A j \in DOMAIN shopify_df :
               Cardinality(StaleFlagsOf(j)) = (IF StaleRow(j) THEN 1 ELSE 0)
        /\ \A k \in DOMAIN stale_df : StaleFlagsOf(stale_df[k].idx.shopify) # {}
        /\ Len(stale_df) = Cardinality({j \in DOMAIN shopify_df : StaleRow(j)})

\* one row is flagged while a row with the tag and no stock, absent from the feed,
\* is not
C17_Witness ==
    /\ Audited
    /\ \E j1, j2 \in DOMAIN shopify_df :
        /\ StaleFlagsOf(j1) # {}
        /\ "clearance" \in parse_tags(shopify_df[j2].tags)
        /\ shopify_df[j2].inventoryQuantity = Float(0)
        /\ \A i \in DOMAIN csv_df : sku_lower(csv_df[i]) # sku_lower(shopify_df[j2])
        /\ StaleFlagsOf(j2) = {}

\* the text of a cell without currency signs, thousands separators and outer blanks
Stripped(cell) == str_strip(SelectSeq(cell.s, LAMBDA ch : ch \notin {"$", ","}))

\* a decimal: an optional sign, then digits with at most one period among them
DecimalText(text) ==
    LET body == IF text # <<>> /\ Head(text) \in {"-", "+"} THEN Tail(text) ELSE text
    IN /\ \E i \in DOMAIN body : IsDigit(body[i])
       /\ \A i \in DOMAIN body : IsDigit(body[i]) \/ body[i] = "."
       /\ Cardinality({i \in DOMAIN body : body[i] = "."}) <= 1

\* a numeric cell as it is loaded: absent, or a text that is not a decimal
AbsentCell(cell) == isna(cell) \/ (cell.t = "raw" /\ Stripped(cell) = <<>>)
MalformedCell(cell) ==
    cell.t = "raw" /\ Stripped(cell) # <<>> /\ ~DecimalText(Stripped(cell))
Unusable(cell) == AbsentCell(cell) \/ MalformedCell(cell)

\* the records of one kind the run writes for the pair of the feed row i and the
\* snapshot row j
WrittenFor(i, j, kind) ==
    {k \in DOMAIN mismatch_df' :
        /\ mismatch_df'[k].idx = [csv |-> i, shopify |-> j]
        /\ mismatch_df'[k].field = kind}

\* C18: a malformed numeric value (a non-empty text that is not a decimal once
\* currency signs and thousands separators are removed) is treated as absent and
\* never as zero: the run gives a matched row no price record when the price of the
\* feed or of the platform is malformed or absent, and no compare_at_price record
\* when the list price of the feed or of the platform is malformed or absent
C18_Step ==
    (pc = "loaded" /\ pc' = "audited") =>
        \A i \in DOMAIN csv_df : \A j \in DOMAIN shopify_df :
            sku_lower(csv_df[i]) = sku_lower(shopify_df[j]) =>
                /\ MalformedCell(csv_df[i].price) => isna(csv_df'[i].price)
                /\ MalformedCell(shopify_df[j].price) => isna(shopify_df'[j].price)
                /\ (Unusable(csv_df[i].price) \/ Unusable(shopify_df[j].price))
                   => WrittenFor(i, j, "price") = {}
                /\ (Unusable(csv_df[i].compareAtPrice)
                    \/ Unusable(shopify_df[j].compareAtPrice))
                   => WrittenFor(i, j, "compare_at_price") = {}
C18_MalformedIsAbsent == [][C18_Step]_vars

\* the row of the scenario: equal prices, equal list prices above the price, the
\* clearance tag on the platform and the default template there
SamePrices(m) ==
    /\ notna(FeedRow(m).price) /\ notna(PlatformRow(m).price)
    /\ num_val(FeedRow(m).price) = num_val(PlatformRow(m).price)
    /\ notna(FeedRow(m).compareAtPrice) /\ notna(PlatformRow(m).compareAtPrice)
    /\ num_val(FeedRow(m).compareAtPrice) = num_val(PlatformRow(m).compareAtPrice)
DiscountedTaggedDefault(m) ==
    /\ SamePrices(m)
    /\ FeedDiscount(m)
    /\ ClearanceTagged(m)
    /\ row_template(PlatformRow(m)) = "default template"

\* the only record of the row says the template should be clearance
OnlyTemplateRecord(m) ==
    /\ Cardinality(RecordsOf(m)) = 1
    /\ \A k \in RecordsOf(m) :
        /\ mismatch_df[k].field = "incorrect_template_suffix"
        /\ mismatch_df[k].csv_value = Word("clearance")

\* the description of the platform row holds a level-1 heading
HasH1(m) ==
    /\ PlatformRow(m).descriptionHtml.t = "raw"
    /\ \E i \in DOMAIN PlatformRow(m).descriptionHtml.s :
           is_h1_open(PlatformRow(m).descriptionHtml.s[i])

\* C19 as stated: in a clearance feed a matched row with equal prices, equal list
\* prices above the price, the clearance tag on the platform and the default
\* template there has exactly one record, incorrect_template_suffix expecting
\* clearance
C19_OnlyTemplate ==
    (Audited /\ is_clearance(selected_file)) =>
        \A m \in MatchedPairs : DiscountedTaggedDefault(m) => OnlyTemplateRecord(m)

\* C19, amended: the same for a row without an oversize or overweight tag on either
\* side and without a level-1 heading in the platform's description
C19_OnlyTemplatePlain ==
    (Audited /\ is_clearance(selected_file)) =>
        \A m \in MatchedPairs :
            (DiscountedTaggedDefault(m) /\ ~OversizeTagged(m) /\ ~HasH1(m))
            => OnlyTemplateRecord(m)

\* such a row has been audited and carries its one record
C19_Witness ==
    /\ Audited /\ is_clearance(selected_file)
    /\ \E m \in MatchedPairs :
        /\ DiscountedTaggedDefault(m) /\ ~OversizeTagged(m) /\ ~HasH1(m)
        /\ OnlyTemplateRecord(m)

\* a blank cell: absent, or a text of blanks only
Blank(cell) == isna(cell) \/ (cell.t = "raw" /\ \A i \in DOMAIN cell.s : cell.s[i] = " ")

\* the feed rows whose key is there and has no counterpart in the snapshot
MissingRows == {i \in DOMAIN csv_df : notna(csv_df[i].sku) /\ Counterparts(i) = {}}

\* "Product {sku}"
ProductTitle(row) == Raw(<<"P", "r", "o", "d", "u", "c", "t", " ">> \o row.sku.s)

\* C20: in the record of a missing-downstream row a blank type with a non-blank
\* product_type becomes that product_type, a blank title becomes "Product {sku}",
\* and a non-blank type or title stays as it is
C20_MissingFallbacks ==
    Audited =>
        \A i \in MissingRows : \A k \in MissingFor(i) :
            LET row == csv_df[i]
                rec == missing_df[k]
            IN /\ (Blank(row.type) /\ ~Blank(row.product_type))
                      => rec.type = row.product_type
               /\ ~Blank(row.type) => rec.type = row.type
               /\ Blank(row.title) => rec.title = ProductTitle(row)
               /\ ~Blank(row.title) => rec.title = row.title

\* a missing row with a blank type, a product_type and no title has its record with
\* both fallbacks
C20_Witness ==
    /\ Audited
    /\ \E i \in MissingRows : \E k \in MissingFor(i) :
        /\ Blank(csv_df[i].type) /\ ~Blank(csv_df[i].product_type)
        /\ Blank(csv_df[i].title)
        /\ missing_df[k].type = csv_df[i].product_type
        /\ missing_df[k].title = ProductTitle(csv_df[i])

\* C21: in the record of a missing-downstream row whose type and product_type are
\* both blank, the type is the category of the row
C21_TypeFromCategory ==
    Audited =>
        \A i \in MissingRows : \A k \in MissingFor(i) :
            (Blank(csv_df[i].type) /\ Blank(csv_df[i].product_type))
            => missing_df[k].type = csv_df[i].category

\* the number a decimal text stands for, in hundredths, read digit by digit
DecimalHundredths(text) ==
    LET neg == text # <<>> /\ Head(text) = "-"
        body == IF text # <<>> /\ Head(text) \in {"-", "+"} THEN Tail(text) ELSE text
        dots == {i \in DOMAIN body : body[i] = "."}
        dot == IF dots = {} THEN Len(body) + 1 ELSE CHOOSE i \in dots : TRUE
        whole == SubSeq(body, 1, dot - 1)
        frac == SubSeq(body \o <<"0", "0", "0">>, dot + 1, dot + 2)
    IN (IF neg THEN -1 ELSE 1) * (100 * NatOf(whole) + NatOf(frac))

\* a cell of a record holds the value a cell of the feed had: the same cell, or the
\* number the feed's text stands for
SameValue(loaded, carried) ==
    \/ carried = loaded
    \/ /\ isna(loaded) /\ isna(carried)
    \/ /\ loaded.t = "raw" /\ DecimalText(Stripped(loaded))
       /\ carried = Float(DecimalHundredths(Stripped(loaded)))

\* the columns of a feed row other than type and title
CarriedColumns == {"sku", "handle", "price", "compareAtPrice", "tags", "product_type", "category"}

\* C22: the missing-products record of a missing-downstream row carries every
\* column of the feed row with the value the row had when it was loaded, the price
\* and the list price included; only a blank type and a blank title are replaced
C22_Step ==
    (pc = "loaded" /\ pc' = "audited") =>
        \A i \in DOMAIN csv_df :
            (/\ notna(csv_df[i].sku)
             /\ \A j \in DOMAIN shopify_df : sku_lower(shopify_df[j]) # sku_lower(csv_df[i]))
            => \E k \in DOMAIN missing_df' :
                  /\ \A col \in CarriedColumns : SameValue(csv_df[i][col], missing_df'[k][col])
                  /\ ~Blank(csv_df[i].type) => missing_df'[k].type = csv_df[i].type
                  /\ ~Blank(csv_df[i].title) => missing_df'[k].title = csv_df[i].title
C22_CarriedVerbatim == [][C22_Step]_vars

\* the tags of a description: opening and closing tags of a level-1 and of a level-2
\* heading, and the attributes an opening tag carries
OpenH1 == {"<h1>", "<H1>", "<h1 class=\"x\">"}
CloseH1 == {"</h1>", "</H1>", "</h1 >"}
OpenH2 == {"<h2>", "<H2>", "<h2 class=\"x\">"}
CloseH2 == {"</h2>", "</H2>", "</h2 >"}
TagAttributes(w) == IF w \in {"<h1 class=\"x\">", "<h2 class=\"x\">"} THEN " class=\"x\"" ELSE ""

\* fixed is the description with its level-1 heading tags made level-2 and nothing
\* else changed
HeadingsLowered(desc, fixed) ==
    /\ fixed.t = "raw"
    /\ Len(fixed.s) = Len(desc.s)
    /\ \A i \in DOMAIN desc.s :
           IF desc.s[i] \in OpenH1
           THEN fixed.s[i] \in OpenH2 /\ TagAttributes(fixed.s[i]) = TagAttributes(desc.s[i])
           ELSE IF desc.s[i] \in CloseH1
           THEN fixed.s[i] \in CloseH2
           ELSE fixed.s[i] = desc.s[i]

\* C23: a platform description with an opening tag of a level-1 heading, in any
\* letter case, gives one h1_in_description record whose corrected HTML has every
\* opening and closing level-1 heading tag rewritten to level 2, attributes and the
\* text outside the heading tags unchanged; a description without such an opening
\* tag gives no record
C23_HeadingsRewritten ==
    Audited =>
        \A m \in MatchedPairs :
            LET desc == PlatformRow(m).descriptionHtml
                recs == RecordsOfKind(m, "h1_in_description")
            IN IF desc.t = "raw" /\ \E i \in DOMAIN desc.s : desc.s[i] \in OpenH1
               THEN /\ Cardinality(recs) = 1
                    /\ \A k \in recs :
                           HeadingsLowered(desc, mismatch_df[k].fixed_descriptionHtml)
               ELSE recs = {}

\* C28: no validation error of a price request is lost: when the answer to the
\* request of a price group holds an error entry, whatever its field path, a row of
\* the group is in the returned error map
C28_NoErrorLost ==
    AtReturn =>
        \A k \in DOMAIN requests :
            LET r == requests[k] IN
            (IsPrice(r) /\ ~r.resp.raise /\ r.resp.userErrors # <<>>) =>
                \E x \in Range(r.rows) : x \in DOMAIN ReturnedErrors

\* the rows of the working table a fix action was not given
NotSubmitted == DOMAIN mismatch_df \ Range(df_to_fix)

\* C30: a fix action changes nothing about the rows it was not given: every key of
\* the error map the dispatcher returns is a submitted row, and process_fixes keeps
\* every row that was not submitted, with its Error_Log and all its other columns
C30_State == AtReturn => DOMAIN ReturnedErrors \subseteq Range(df_to_fix)
C30_Step ==
    (AtReturn /\ pc' = "idle") =>
        \A x \in NotSubmitted : x \in DOMAIN mismatch_df' /\ mismatch_df'[x] = mismatch_df[x]
C30_OthersUntouched == [](C30_State) /\ [][C30_Step]_vars

\* the dispatcher has returned from an action that left a row out, with a failed
\* row and a row that succeeded among the submitted ones
C30_Witness ==
    /\ AtReturn
    /\ NotSubmitted # {}
    /\ \E x, y \in Range(df_to_fix) :
           x \in DOMAIN ReturnedErrors /\ y \notin DOMAIN ReturnedErrors

\* ------------------------------------------------------------ the snapshot's fetch
\* (app.py calls both fetch functions with a keyword argument for the inventory
\* locations; the locations take no part in the rows' keys, and the calls are
\* modelled as entering the functions with the feed's keys)
BatchKeys == 2   \* keys of one batch of the paged fetch (batch_size, 50 in the source)
PageRows == 1    \* rows of one page of the paged fetch (first: 250 in the source)

\* csv_df['sku'].dropna().unique().tolist()
feed_skus(csv) ==
    LET keep == SelectSeq([i \in DOMAIN csv |-> i],
                    LAMBDA i : /\ notna(csv[i].sku)
                               /\ \A j \in 1..(i - 1) : csv[j].sku # csv[i].sku)
    IN [k \in DOMAIN keep |-> csv[keep[k]].sku]

\* range(0, len(skus), batch_size): the number of batches
batch_count(skus) == (Len(skus) + BatchKeys - 1) \div BatchKeys

\* skus[i:i+batch_size], for the b-th batch
batch_of(skus, b) == SubSeq(skus, (b - 1) * BatchKeys + 1, Min(b * BatchKeys, Len(skus)))

\* the platform's answer to sku:"k1" OR sku:"k2" ...: the positions of the catalogue's
\* variants whose key is one of the batch's, whatever the case of its letters
query_rows(catalogue, batch) ==
    SelectSeq([j \in DOMAIN catalogue |-> j],
        LAMBDA j : /\ notna(catalogue[j].sku)
                   /\ \E i \in DOMAIN batch :
                          str_lower(astype_str(catalogue[j].sku)) = str_lower(astype_str(batch[i])))

\* the pages of an answer of n rows: one request at least
page_count(n) == IF n = 0 THEN 1 ELSE (n + PageRows - 1) \div PageRows

\* the while loop of one batch, whose request f raises (0: none does): the except
\* branch prints the error and ends the batch's pagination, keeping the rows so far
batch_fetch(catalogue, b, batch, f) ==
    LET found == query_rows(catalogue, batch)
        last == IF f = 0 THEN page_count(Len(found)) ELSE f
        got == IF f = 0 THEN Len(found) ELSE (f - 1) * PageRows
    IN [requests |-> [p \in 1..last |-> [kind |-> "page", batch |-> b, page |-> p,
                                         ok |-> p # f]],
        rows |-> [k \in 1..got |-> catalogue[found[k]]]]

RECURSIVE paged_from(_, _, _, _)
paged_from(skus, catalogue, fail, b) ==
    IF b > batch_count(skus) THEN [requests |-> <<>>, rows |-> <<>>]
    ELSE LET head == batch_fetch(catalogue, b, batch_of(skus, b), fail[b])
             rest == paged_from(skus, catalogue, fail, b + 1)
         IN [requests |-> head.requests \o rest.requests, rows |-> head.rows \o rest.rows]

\* get_shopify_data_for_skus(skus), the platform failing the requests `fail` names:
\* the rows of the returned frame, and the requests issued
get_shopify_data_for_skus(skus, catalogue, fail) == paged_from(skus, catalogue, fail, 1)

\* the ways the platform can fail the requests of a paged fetch: for each batch,
\* the page whose request raises, or 0
PageFailures(skus, catalogue) ==
    {fail \in [1..batch_count(skus) -> 0..(Len(catalogue) + 1)] :
        \A b \in 1..batch_count(skus) :
            fail[b] <= page_count(Len(query_rows(catalogue, batch_of(skus, b))))}

\* the courses of a bulk operation
BulkOutcomes == {"completed", "start_error", "poll_error", "no_url", "download_error"}

\* a variant of bulk_filter that returns the whole export
bulk_filter_none(skus, catalogue) == catalogue

\* step 6 of get_shopify_data_bulk: the rows whose key is one of the requested keys
bulk_filter(skus, catalogue) ==
    LET skus_lower == {str_strip(str_lower(astype_str(skus[i]))) : i \in DOMAIN skus}
    IN SelectSeq(catalogue, LAMBDA row : sku_lower(row) \in skus_lower)

\* get_shopify_data_bulk(skus): `raised` when an exception leaves the function,
\* `pair` when it returns (filtered_df, excessive_media_df) and not the single
\* empty frame of the early returns
get_shopify_data_bulk(skus, catalogue, outcome) ==
    [requests |->
        <<[kind |-> "start", batch |-> 0, page |-> 0, ok |-> outcome # "start_error"]>> \o
        (IF outcome = "start_error" THEN <<>>
         ELSE <<[kind |-> "poll", batch |-> 0, page |-> 0, ok |-> outcome # "poll_error"]>>) \o
        (IF outcome \in {"completed", "download_error"}
         THEN <<[kind |-> "download", batch |-> 0, page |-> 0,
                 ok |-> outcome # "download_error"]>>
         ELSE <<>>),
     raised |-> outcome \in {"start_error", "poll_error", "download_error"},
     pair |-> outcome = "completed" /\ catalogue # <<>>,
     rows |-> IF outcome = "completed" THEN bulk_filter(skus, catalogue) ELSE <<>>]

FetchFailed == "Failed to fetch Shopify data"

\* "Run Audit" with the paged method: the fetch returns whatever rows it collected
FetchPaged ==
    /\ pc = "selected"
    /\ fetch_method = "Paged"
    /\ \E fail \in PageFailures(feed_skus(csv_df), remote) :
       \E r \in {get_shopify_data_for_skus(feed_skus(csv_df), remote, fail)} :
          /\ shopify_df' = r.rows
          /\ fetch_requests' = r.requests
    /\ st_error' = ""
    /\ pc' = "loaded"
    /\ UNCHANGED <<mismatch_df, df_to_fix, errors, gi, c, requests, raised, fixes, faults>>
    /\ UNCHANGED <<csv_df, selected_file, missing_df, stale_df, remote, fetch_method>>
    /\ UNCHANGED creation_vars

\* "Run Audit" with the bulk method: an exception of the function, or of the
\* unpacking of a single frame into two names, is shown and the run stops
FetchBulk ==
    /\ pc = "selected"
    /\ fetch_method = "Bulk"
    /\ \E outcome \in BulkOutcomes :
       \E r \in {get_shopify_data_bulk(feed_skus(csv_df), remote, outcome)} :
          /\ fetch_requests' = r.requests
          /\ IF r.raised \/ ~r.pair
             THEN /\ st_error' = FetchFailed
                  /\ pc' = "stopped"
                  /\ UNCHANGED shopify_df
             ELSE /\ st_error' = ""
                  /\ pc' = "loaded"
                  /\ shopify_df' = r.rows
    /\ UNCHANGED <<mismatch_df, df_to_fix, errors, gi, c, requests, raised, fixes, faults>>
    /\ UNCHANGED <<csv_df, selected_file, missing_df, stale_df, remote, fetch_method>>
    /\ UNCHANGED creation_vars

NextFetch == FetchPaged \/ FetchBulk \/ RunAudit

\* a session whose feed is read, before the fetch
Selected(csv, catalogue, file, method) ==
    /\ csv_df = csv
    /\ shopify_df = <<>>
    /\ selected_file = file
    /\ missing_df = <<>>
    /\ stale_df = <<>>
    /\ remote = catalogue
    /\ fetch_method = method
    /\ fetch_requests = <<>>
    /\ st_error = ""
    /\ missing_index = {}
    /\ df_to_create = {}
    /\ creations = <<>>
    /\ error_logs = <<>>
    /\ mismatch_df = EmptyMap
    /\ pc = "selected"
    /\ df_to_fix = <<>>
    /\ errors = EmptyMap
    /\ gi = 1
    /\ c = 0
    /\ requests = <<>>
    /\ raised = FALSE
    /\ fixes = 0
    /\ faults = 0

\* ---- the tables of the fetch: a feed of one to three rows and a catalogue of
\* zero to three variants, some of them tagged Clearance and unknown to the feed
FetchRemoteSkus == {Raw(<<"a">>), Raw(<<"b">>), Raw(<<"a", " ">>), Raw(<<"d">>), PyNone}
FetchCsvRow(sku) == CsvRow(sku, Raw(<<"p">>), Raw(<<"1", "0">>), NaN, NaN, NaN, NaN, Raw(<<"T">>))
FetchRemoteRow(sku, j) ==
    ShopifyRow(sku, Raw(<<"p">>), Raw(<<"1", "0">>), PyNone, Raw(<<"5">>),
               Raw(<<"Clearance">>), PyNone, PyNone, 10 + j, 1)
FetchFeeds ==
    {[i \in 1..Len(skus) |-> FetchCsvRow(skus[i])] :
        skus \in {<<Raw(<<"a">>)>>, <<Raw(<<"a">>), Raw(<<"b">>)>>,
                  <<Raw(<<"a">>), Raw(<<"A">>), Raw(<<"b">>)>>,
                  <<Raw(<<"a">>), NaN, Raw(<<"c">>)>>,
                  <<Raw(<<"a">>), Raw(<<"b">>), Raw(<<"c">>)>>}}
FetchCatalogues ==
    {[j \in 1..Len(skus) |-> FetchRemoteRow(skus[j], j)] :
        skus \in SeqsUpTo(FetchRemoteSkus, 2) \cup
                 {<<Raw(<<"a">>), Raw(<<"b">>), Raw(<<"c">>)>>,
                  <<Raw(<<"a">>), Raw(<<"A">>), Raw(<<"d">>)>>}}

InitFetch ==
    \E csv \in FetchFeeds : \E catalogue \in FetchCatalogues :
    \E file \in FileNames : \E method \in {"Paged", "Bulk"} :
        Selected(csv, catalogue, file, method)

SpecFetch == InitFetch /\ [][NextFetch]_vars

\* ------------------------------------------------------------ properties of the fetch
\* a request of the snapshot's fetch failed
FetchRequestFailed == \E k \in DOMAIN fetch_requests : ~fetch_requests[k].ok

\* C26: when a request of the initial platform fetch fails, the audit run is
\* aborted and the failure is shown: no discrepancy report and no missing-products
\* report is made from the partial snapshot
C26_FailedFetchAborts ==
    FetchRequestFailed =>
        /\ pc = "stopped"
        /\ st_error = FetchFailed
        /\ mismatch_df = EmptyMap
        /\ missing_df = <<>>

\* C29: in bulk mode every snapshot row handed to check_mismatches and to
\* check_stale_clearance has the normalized key of a keyed row of the feed, the join
\* has no row without a feed side, and the stale scan returns no flag
C29_BulkSnapshotInFeed ==
    (fetch_method = "Bulk" /\ pc \in {"loaded", "audited"}) =>
        /\ \A j \in DOMAIN shopify_df :
               \E i \in DOMAIN csv_df :
                   /\ notna(csv_df[i].sku)
                   /\ sku_lower(csv_df[i]) = sku_lower(shopify_df[j])
        /\ \A r \in JoinedRows : r.csv # 0
        /\ stale_df = <<>>

\* a bulk audit of a clearance feed is over, and the catalogue holds a variant in
\* stock, tagged Clearance, whose key the feed does not have: the snapshot left it out
C29_Witness ==
    /\ fetch_method = "Bulk"
    /\ pc = "audited"
    /\ is_clearance(selected_file)
    /\ shopify_df # <<>>
    /\ Len(shopify_df) < Len(remote)
    /\ \E j \in DOMAIN remote :
           /\ "clearance" \in stale_tags(remote[j].tags)
           /\ \A i \in DOMAIN csv_df : sku_lower(csv_df[i]) # sku_lower(remote[j])

\* ------------------------------------------------------------ the creation of the missing products
\* the handle process_creations gives a row before grouping: its sku when the
\* handle is missing or nothing but whitespace
creation_handle_plain(rec) == rec.handle

creation_handle(rec) ==
    IF isna(rec.handle) \/ str_strip(astype_str(rec.handle)) = <<>> THEN rec.sku ELSE rec.handle

\* df_to_create.groupby('handle'): the groups in the order of their keys, each with
\* the index of its rows; a row whose key is missing is in no group
creation_groups(df, sel) ==
    LET keys == {h \in {creation_handle(df[x]) : x \in sel} : notna(h)}
        sorted == [k \in 1..Cardinality(keys) |->
                      CHOOSE h \in keys :
                          Cardinality({y \in keys : text_less(astype_str(y), astype_str(h))}) = k - 1]
    IN [k \in DOMAIN sorted |->
            [handle |-> sorted[k], rows |-> {x \in sel : creation_handle(df[x]) = sorted[k]}]]

\* what create_product makes of one call: (True, ""), (False, the userErrors'
\* messages), or (False, the text of the exception execute_graphql_query raised)
CreateOutcomes == {"created", "userErrors", "exception"}

\* the body of the loop for one group: one create_product call, with the title of
\* the group's first row (the handle when that title is missing or empty) and one
\* variant for each row
create_call(df, g, outcome) ==
    LET first == CHOOSE x \in g.rows : \A y \in g.rows : x <= y
        title == IF notna(df[first].title) /\ df[first].title.s # <<>>
                 THEN df[first].title ELSE g.handle
    IN [handle |-> g.handle, title |-> title, rows |-> g.rows,
        variants |-> {df[x].sku : x \in g.rows},
        success |-> outcome = "created", error_msg |-> IF outcome = "created" THEN "" ELSE outcome]

\* a variant of successful_indices that holds the rows of every group
successful_indices_all(calls) == UNION {calls[k].rows : k \in DOMAIN calls}

\* successful_indices: the index of the groups whose call succeeded
successful_indices(calls) == UNION {calls[k].rows : k \in {j \in DOMAIN calls : calls[j].success}}

\* process_creations(df_to_create), the platform answering the call of the k-th
\* group with outcome[k]: the calls, the error logs, and the index of missing_df
process_creations(df, index, sel, outcome) ==
    LET groups == creation_groups(df, sel)
        calls == [k \in DOMAIN groups |-> create_call(df, groups[k], outcome[k])]
        failed == SelectSeq(calls, LAMBDA call : ~call.success)
        success_count == Cardinality(UNION {calls[k].rows : k \in {j \in DOMAIN calls : calls[j].success}})
    IN [creations |-> calls,
        error_logs |-> [k \in DOMAIN failed |-> [handle |-> failed[k].handle,
                                                 error_msg |-> failed[k].error_msg]],
        missing_index |-> IF success_count > 0 THEN index \ successful_indices(calls)
                          ELSE index]

\* "Create Selected" or "Create All" with a selection that is not empty
ProcessCreations ==
    /\ pc = "audited"
    /\ \E sel \in (SUBSET missing_index) \ {{}} :
       \E outcome \in [1..Len(creation_groups(missing_df, sel)) -> CreateOutcomes] :
       \E r \in {process_creations(missing_df, missing_index, sel, outcome)} :
          /\ df_to_create' = sel
          /\ creations' = r.creations
          /\ error_logs' = r.error_logs
          /\ missing_index' = r.missing_index
    /\ UNCHANGED <<mismatch_df, pc, df_to_fix, errors, gi, c, requests, raised, fixes, faults>>
    /\ UNCHANGED audit_vars
    /\ UNCHANGED remote_vars

NextCreate == RunAudit \/ ProcessCreations

\* ---- the tables of the creation: a feed of three rows "a", "b", "c" whose handles
\* are missing, blank, shared or the key of another row, against a snapshot that
\* may hold "c"
CreateHandles == {NaN, Raw(<<" ">>), Raw(<<"x">>), Raw(<<"a">>)}
CreateRow(sku, handle) ==
    CsvRow(Raw(<<sku>>), handle, Raw(<<"1", "0">>), NaN, NaN, NaN, NaN, NaN)
CreateSnapshots ==
    {<<>>,
     <<ShopifyRow(Raw(<<"c">>), Raw(<<"p">>), Raw(<<"1", "0">>), PyNone, Raw(<<"5">>),
                  Raw(<<>>), PyNone, PyNone, 11, 1)>>}

InitCreate ==
    \E h1 \in CreateHandles : \E h2 \in CreateHandles : \E h3 \in CreateHandles :
    \E shop \in CreateSnapshots :
        Loaded(<<CreateRow("a", h1), CreateRow("b", h2), CreateRow("c", h3)>>,
               shop, "products.csv")

SpecCreate == InitCreate /\ [][NextCreate]_vars

\* ------------------------------------------------------------ properties of the creation
\* the calls of the last process_creations that hold the row x
CallsOf(x) == {k \in DOMAIN creations : x \in creations[k].rows}

\* the key of the aggregate of a candidate: its handle, or its sku when the handle
\* is blank
AggregateKey(rec) == IF Blank(rec.handle) THEN rec.sku ELSE rec.handle

\* C24: every submitted creation candidate belongs to exactly one aggregate, keyed
\* by its handle or, when the handle is blank or whitespace, by its own sku; two
\* candidates with blank handles and different skus are never in one aggregate
C24_OneAggregatePerCandidate ==
    /\ \A x \in df_to_create :
           /\ Cardinality(CallsOf(x)) = 1
           /\ \A k \in CallsOf(x) : creations[k].handle = AggregateKey(missing_df[x])
    /\ \A x, y \in df_to_create :
           (/\ Blank(missing_df[x].handle)
            /\ Blank(missing_df[y].handle)
            /\ missing_df[x].sku # missing_df[y].sku) => CallsOf(x) \cap CallsOf(y) = {}

\* a creation was given two rows with blank handles, and a third row whose handle
\* is that of another aggregate
C24_Witness ==
    /\ Len(creations) >= 2
    /\ \E x, y \in df_to_create :
           /\ x # y
           /\ Blank(missing_df[x].handle)
           /\ Blank(missing_df[y].handle)
    /\ \E k \in DOMAIN creations : Cardinality(creations[k].rows) = 2

\* the keys of the aggregates of the rows submitted
SubmittedKeys == {AggregateKey(missing_df[x]) : x \in df_to_create}

\* one creation request for each aggregate, a log entry for each failed one, whose
\* rows all stay in the missing set
C25_State ==
    /\ Len(creations) = Cardinality(SubmittedKeys)
    /\ \A h \in SubmittedKeys :
           Cardinality({k \in DOMAIN creations : creations[k].handle = h}) = 1
    /\ \A k \in DOMAIN creations :
           ~creations[k].success =>
               /\ \E e \in DOMAIN error_logs :
                      /\ error_logs[e].handle = creations[k].handle
                      /\ error_logs[e].error_msg # ""
               /\ creations[k].rows \subseteq missing_index
    /\ \A e \in DOMAIN error_logs :
           \E k \in DOMAIN creations :
               ~creations[k].success /\ creations[k].handle = error_logs[e].handle

\* a process_creations step removes from the missing set exactly the rows of the
\* aggregates whose request succeeded
C25_Step ==
    (pc = "audited" /\ pc' = "audited") =>
        missing_index' =
            missing_index \ UNION {creations'[k].rows :
                                       k \in {j \in DOMAIN creations' : creations'[j].success}}

\* C25: exactly one creation request is issued per aggregate; when it fails, by a
\* reported error or an exception, the failure is logged for the aggregate, none of
\* its rows leaves the missing-products set and the later aggregates are still
\* attempted; when it succeeds exactly its rows leave the missing-products set
C25_OneRequestPerAggregate == [](C25_State) /\ [][C25_Step]_vars

\* a creation of three aggregates: the first failed with an exception, the second
\* with a reported error, and the third was created
C25_Witness ==
    /\ Len(creations) = 3
    /\ creations[1].error_msg = "exception"
    /\ creations[2].error_msg = "userErrors"
    /\ creations[3].success
    /\ creations[3].rows \cap missing_index = {}
    /\ creations[1].rows \subseteq missing_index

\* ------------------------------------------------------------ the cycle of audit and fix
\* what batch_process_mismatches asks the platform for, for one record of the
\* engine: the variant input of a price-class record, or the aliased
\* sub-operations of another record
corrections(rec) ==
    IF rec.field = "price"
    THEN <<[op |-> "price", id |-> rec.variant_id, arg |-> Raw(astype_str(rec.csv_value))]>>
    ELSE IF rec.field = "compare_at_price"
    THEN <<[op |-> "compareAtPrice", id |-> rec.variant_id,
            arg |-> Raw(astype_str(rec.csv_value))]>>
    ELSE IF rec.field = "sticky_sale"
    THEN <<[op |-> "compareAtPrice", id |-> rec.variant_id, arg |-> PyNone]>>
    ELSE IF rec.field \in TagFields
    THEN <<[op |-> "tagsAdd", id |-> rec.product_id,
            arg |-> IF rec.field = "missing_oversize_tag"
                    THEN Word("oversize") ELSE Word("clearance")]>>
    ELSE IF rec.field = "clearance_price_mismatch"
    THEN <<[op |-> "tagsRemove", id |-> rec.product_id, arg |-> Word("clearance")],
           [op |-> "templateSuffix", id |-> rec.product_id, arg |-> Raw(<<>>)]>>
    ELSE IF rec.field = "incorrect_template_suffix"
    THEN <<[op |-> "templateSuffix", id |-> rec.product_id,
            arg |-> IF rec.csv_value # Word("None")
                    THEN Raw(astype_str(rec.csv_value)) ELSE Raw(<<>>)]>>
    ELSE IF rec.field = "h1_in_description"
    THEN <<[op |-> "descriptionHtml", id |-> rec.product_id,
            arg |-> rec.fixed_descriptionHtml]>>
    ELSE <<>>

RECURSIVE corrections_of(_, _, _)
corrections_of(df, rows, k) ==
    IF k > Len(rows) THEN <<>>
    ELSE corrections(df[rows[k]]) \o corrections_of(df, rows, k + 1)

RECURSIVE price_corrections(_, _, _, _)
price_corrections(df, sel, keys, g) ==
    IF g > Len(keys) THEN <<>>
    ELSE corrections_of(df, group_rows(df, sel, keys[g]), 1)
         \o price_corrections(df, sel, keys, g + 1)

\* the corrections of batch_process_mismatches(df_to_fix) in the order it issues
\* them: the price groups by product, then the other rows in the order of the table
issued_corrections(df, sel) ==
    price_corrections(df, sel, group_keys(df, sel), 1) \o corrections_of(df, other_df(df, sel), 1)

\* the tags of a product after tagsAdd and tagsRemove, as the fetch joins them
tags_added(cell, tag) ==
    IF tag \in parse_tags(cell) /\ cell.s # <<>> THEN cell
    ELSE IF cell.s = <<>> THEN Raw(<<tag>>)
    ELSE Raw(cell.s \o <<IF tag = "oversize" THEN " oversize" ELSE " clearance">>)

tags_removed(cell, tag) ==
    LET kept == SelectSeq(cell.s, LAMBDA w : word_lower(word_strip(w)) # tag)
    IN Raw([i \in DOMAIN kept |-> IF i = 1 THEN word_strip(kept[i]) ELSE kept[i]])

\* a platform that applies one correction exactly as requested
applied(catalogue, op) ==
    [j \in DOMAIN catalogue |->
        LET row == catalogue[j] IN
        IF op.op = "price" /\ row.variant_id = op.id THEN [row EXCEPT !.price = op.arg]
        ELSE IF op.op = "compareAtPrice" /\ row.variant_id = op.id
        THEN [row EXCEPT !.compareAtPrice = op.arg]
        ELSE IF op.op = "tagsAdd" /\ row.product_id = op.id
        THEN [row EXCEPT !.tags = tags_added(@, op.arg.s[1])]
        ELSE IF op.op = "tagsRemove" /\ row.product_id = op.id
        THEN [row EXCEPT !.tags = tags_removed(@, op.arg.s[1])]
        ELSE IF op.op = "templateSuffix" /\ row.product_id = op.id
        THEN [row EXCEPT !.templateSuffix = op.arg]
        ELSE IF op.op = "descriptionHtml" /\ row.product_id = op.id
        THEN [row EXCEPT !.descriptionHtml = op.arg]
        ELSE row]

RECURSIVE applied_all(_, _, _)
applied_all(catalogue, ops, k) ==
    IF k > Len(ops) THEN catalogue
    ELSE applied_all(applied(catalogue, ops[k]), ops, k + 1)

\* the rows of mismatch_df that are not for manual review, in the order of the table
fixable_rows(df) ==
    SelectSeq([k \in 1..Cardinality(DOMAIN df) |-> k - 1], LAMBDA idx : df[idx].field # ManualField)

\* the audit of the cycle: "Run Audit" on the selected feed, the snapshot of the
\* feed's keys fetched without a failure, and check_mismatches on the feed as read
CycleAudit ==
    /\ pc = "selected"
    /\ \E snapshot \in {get_shopify_data_for_skus(feed_skus(csv_df), remote,
                            [b \in 1..batch_count(feed_skus(csv_df)) |-> 0]).rows} :
       \E r \in {check_mismatches(csv_df, snapshot, selected_file)} :
          /\ shopify_df' = r.shopify_df
          /\ missing_df' = r.missing_df
          /\ mismatch_df' = audit_table(r.mismatch_df)
          /\ pc' = IF r.mismatch_df = <<>> THEN "clean" ELSE "cycle_fix"
    /\ UNCHANGED <<df_to_fix, errors, gi, c, requests, raised, fixes, faults>>
    /\ UNCHANGED <<csv_df, selected_file, stale_df>>
    /\ UNCHANGED <<remote_vars, creation_vars>>

\* the fix of the cycle: batch_process_mismatches on every discrepancy that is not
\* for manual review, against a platform that applies each correction and reports
\* no error; process_fixes then removes the rows from the working table, and the
\* audit is due again
CycleFix ==
    /\ pc = "cycle_fix"
    /\ remote' = applied_all(remote, issued_corrections(mismatch_df, fixable_rows(mismatch_df)), 1)
    /\ mismatch_df' = [x \in DOMAIN mismatch_df \ Range(fixable_rows(mismatch_df)) |->
                          mismatch_df[x]]
    /\ pc' = "selected"
    /\ UNCHANGED <<df_to_fix, errors, gi, c, requests, raised, fixes, faults>>
    /\ UNCHANGED audit_vars
    /\ UNCHANGED <<fetch_method, fetch_requests, st_error, creation_vars>>

NextCycle == CycleAudit \/ CycleFix

\* ---- the tables of the cycle: a feed of two variants "a" and "b" of one handle,
\* and a platform where they are the variants 11 and 12 of one product or of two
CycleCompares == {NaN, Raw(<<"1", "0">>), Raw(<<"2", "0">>)}
CycleCsvTags == {NaN, Raw(<<"Oversize">>)}
CycleTags == {Raw(<<>>), Raw(<<"Clearance">>)}
CycleTemplates == {PyNone, Word("clearance")}
CyclePrices == {Raw(<<"1", "0", ".", "0", "0">>), Raw(<<"2", "0", ".", "0", "0">>)}
CycleRemoteCompares == {PyNone, Raw(<<"2", "0", ".", "0", "0">>)}
CycleProducts == {1, 2}

InitCycle ==
    \E compare_a \in CycleCompares : \E compare_b \in CycleCompares :
    \E csv_tags \in CycleCsvTags :
    \E tags \in CycleTags : \E template \in CycleTemplates :
    \E price \in CyclePrices : \E compare \in CycleRemoteCompares :
    \E product_b \in CycleProducts : \E file \in FileNames :
        Selected(<<CsvRow(Raw(<<"a">>), Raw(<<"x">>), Raw(<<"1", "0">>), compare_a,
                             csv_tags, NaN, NaN, Raw(<<"T">>)),
                      CsvRow(Raw(<<"b">>), Raw(<<"x">>), Raw(<<"1", "0">>), compare_b,
                             NaN, NaN, NaN, Raw(<<"T">>))>>,
                    <<ShopifyRow(Raw(<<"a">>), Raw(<<"x">>), price, compare, Raw(<<"5">>),
                                 tags, template, PyNone, 11, 1),
                      ShopifyRow(Raw(<<"b">>), Raw(<<"x">>), price, PyNone, Raw(<<"5">>),
                                 tags, template, PyNone, 12, product_b)>>,
                    file, "Paged")

SpecCycle == InitCycle /\ [][NextCycle]_vars

\* a step of the cycle, told by the position alone: the audit that is due or the
\* fix that is due is done.  Every step of NextCycle is such a step, and one is
\* possible exactly when CycleAudit or CycleFix is
CycleStep ==
    /\ pc \in {"selected", "cycle_fix"}
    /\ pc' \in {"selected", "cycle_fix", "clean"}
    /\ pc' # pc

\* the cycle is repeated as long as an audit or a fix is due
SpecCycleFair == SpecCycle /\ WF_pc(CycleStep)

\* ------------------------------------------------------------ properties of the cycle
\* C27: with an unchanged feed and a platform that applies every correction exactly
\* and reports no error, repeating the cycle of check_mismatches and
\* batch_process_mismatches on every discrepancy that is not for manual review
\* eventually reaches a platform state for which check_mismatches yields no
\* discrepancy, also for a product whose variants share one template and one tag set
C27_CycleConverges == <>(pc = "clean" /\ mismatch_df = EmptyMap)

====
